---- MODULE Spec2Model ----
(***************************************************************************)
(* Model of the vibe-browser relay server (skill/relay.ts): the pending    *)
(* request table, the single extension WebSocket, the HTTP command bridge  *)
(* (POST /command), the health probe (GET /health) and the broadcast of    *)
(* notifications to the SSE subscribers.                                   *)
(***************************************************************************)
EXTENDS Integers, Sequences, FiniteSets, TLC

\* ------------------------------------------------------------------ bounds
MaxReq == 2        \* HTTP requests (POST /command, GET /health) per run
MaxSockets == 2    \* extension WebSocket connections per run
MaxTabs == 2       \* browser tabs
MaxCalls == 2      \* calls of Connection.disconnect per run
MaxFibers == 2     \* maintain-loop fibers alive at a time
MaxEvents == 2     \* lifecycle events waiting in Connection.events
MaxSends == 1      \* calls of Connection.send per run
MaxClock == 16     \* seconds of run time followed by the timed specification
MaxSubscribers == 2 \* subscribers of GET /events
MaxFrames == 3     \* notifications broadcast per run
MaxGen == 1        \* times a tab's registry entry has been removed and made anew
MaxHandlers == 2   \* get-or-attach requests in progress at a time
MaxSessions == 2   \* sessionIds the registry's attach issues per run

Reqs == 1..MaxReq
Sockets == 1..MaxSockets
Ids == 1..MaxReq
NoId == 0          \* "no numeric id" (field absent or not a number)
NoSocket == 0      \* state.extension === null

\* ------------------------------------------------------- program constants
REQUEST_TIMEOUT_MS == 15000
HEALTH_PROBE_TIMEOUT_MS == 3000

\* ------------------------------------------------------------- JSON values
\* A JSON/JS value is a tagged record; a string is a sequence of text chunks
\* (so that equality and startsWith are computed on the text).
Undefined == [tag |-> "undefined", s |-> <<>>]
Null == [tag |-> "null", s |-> <<>>]
Str(chunks) == [tag |-> "string", s |-> chunks]
Zero == [tag |-> "number", s |-> <<"0">>]
TargetObj == [tag |-> "object", s |-> <<"targetId", "T1">>]

\* JS truthiness of a value (the `x ? a : b` and `!x` tests).
Truthy(v) ==
  CASE v.tag = "undefined" -> FALSE
    [] v.tag = "null" -> FALSE
    [] v.tag = "string" -> v.s # <<>>
    [] v.tag = "number" -> v.s # <<"0">>
    [] OTHER -> TRUE

\* The JS `a ?? b` operator.
Coalesce(v, d) == IF v.tag \in {"undefined", "null"} THEN d ELSE v

\* String.prototype.startsWith on chunked text.
StartsWith(chunks, prefix) ==
  /\ Len(chunks) >= Len(prefix)
  /\ SubSeq(chunks, 1, Len(prefix)) = prefix

TIMEOUT_ERROR_PREFIX == <<"Timeout after">>
BLOCKED_EXTENSION_HINT ==
  <<"The browser extension may be blocked. Manually refresh the extension and retry.">>
NOT_CONNECTED == <<"Extension is not connected">>
RECONNECTED ==
  <<"Extension reconnected; previous in-flight commands were canceled.">>
DISCONNECTED == <<"Extension disconnected before command completed.">>

makeTimeoutError(timeoutMs, includeBlockedHint) ==
  LET base == TIMEOUT_ERROR_PREFIX \o <<" ", ToString(timeoutMs), "ms">>
  IN IF ~includeBlockedHint THEN base
     ELSE base \o <<". ">> \o BLOCKED_EXTENSION_HINT

isTimeoutError(error) ==
  error.tag = "string" /\ StartsWith(error.s, TIMEOUT_ERROR_PREFIX)

commandErrorToStatus(error) ==
  IF ~Truthy(error) THEN 200
  ELSE IF error = Str(NOT_CONNECTED) THEN 503
  ELSE IF isTimeoutError(error) THEN 504
  ELSE 502

\* ------------------------------------------------------------------- state
VARIABLES
  sock,           \* readyState of every extension socket the server has seen
  extension,      \* state.extension (NoSocket when null)
  keepalive,      \* socket pinged by state.extensionKeepaliveId (NoSocket: no timer)
  intervals,      \* sockets pinged by a keepalive setInterval that is not cleared
  nextId,         \* state.nextId
  pending,        \* state.pending: id -> entry (resolve callback = the request)
  timers,         \* armed setTimeout handles: id -> [timeoutMs, includeBlockedHint]
  req,            \* HTTP requests in flight: the callers
  issued,         \* ids handed out by makeCommand, in order
  made,           \* the command made by the last step and its body's id
  delivered,      \* responses handed to callers by the last step
  sent,           \* command frames written to sockets by the last step
  broadcast       \* messages passed to sseBroadcast by the last step

relayVars == <<sock, extension, keepalive, intervals, nextId, pending, timers,
               req, issued, made, delivered, sent, broadcast>>

\* The relay's configuration, read from the environment at start-up.
VARIABLES
  env,            \* process.env: the two timeout settings, as raw text
  config          \* the timeouts computed from env (NotLoaded before start-up)

cfgVars == <<env, config>>

\* The extension's command loop (background script) and the passing of time.
VARIABLES
  messagesQ,      \* Connection.messages: commands received, not yet taken
  handling,       \* the command processMessages is handling (NoMessage: none)
  finishAt,       \* when the handler of that command completes
  clock,          \* the time, in seconds
  deadline        \* when each armed relay timer fires: id -> time

loopVars == <<messagesQ, handling, finishAt>>
timeVars == <<clock, deadline>>

NoMessage == [id |-> 0, method |-> "none", conn |-> 0]

\* The extension is idle and no time is followed.
LoopIdle ==
  /\ messagesQ = <<>>
  /\ handling = NoMessage
  /\ finishAt = 0
  /\ clock = 0
  /\ deadline = [k \in {} |-> 0]

\* The extension's side of the relay connection (Connection service).
VARIABLES
  socks,          \* readyState of every WebSocket the extension has created
  wsRef,          \* wsRef (0: null)
  eventsQ         \* Connection.events: lifecycle events offered, not yet taken

linkVars == <<socks, wsRef, eventsQ>>

LinkIdle ==
  /\ socks = [s \in Sockets |-> "none"]
  /\ wsRef = 0
  /\ eventsQ = <<>>

\* The tab registry (TabRegistry service), the browser's debugger, and the
\* two loops of the background script.
VARIABLES
  tabsRef,            \* tabsRef: tabId -> targetId
  childSessionsRef,   \* childSessionsRef: child sessionId -> parent tabId
  debuggee,           \* tabs the browser's debugger is attached to
  closed,             \* tabs that have been closed
  mpc,                \* where the handler of `handling` is suspended
  mtab,               \* the tab that handler is attaching
  epc,                \* where processEvents is suspended
  todo,               \* detachAll: tabs of its snapshot not yet detached
  via,                \* per registry entry: the connection its command came over
                      \* (cmd) and the connection held when it was made (at)
  gen,                \* per tab: how many times its entry has been removed
  answers             \* per handled command: what its handler did and returned

regVars == <<tabsRef, childSessionsRef, debuggee, closed, mpc, mtab, epc, todo,
             via, gen, answers>>

Tabs == 1..MaxTabs
NoTab == 0
Children == {"child-1"}

RegIdle ==
  /\ tabsRef = [t \in {} |-> <<>>]
  /\ childSessionsRef = [c \in {} |-> NoTab]
  /\ debuggee = {}
  /\ closed = {}
  /\ mpc = "idle"
  /\ mtab = NoTab
  /\ epc = "idle"
  /\ todo = {}
  /\ via = [t \in {} |-> [cmd |-> 0, at |-> 0]]
  /\ gen = [t \in Tabs |-> 0]
  /\ answers = [i \in {} |-> 0]

\* The maintenance of the connection (Connection service) and its
\* environment.
VARIABLES
  maintainRef,    \* maintainRef
  fiberRef,       \* fiberRef: the fiber it holds (0: null)
  lpc,            \* per fiber: where the maintain loop is suspended ("none": not alive)
  hs,             \* per fiber: the socket whose handshake it awaits (0: none)
  cpc,            \* where the running call of checkConnection is suspended
  cret,           \* what the last call of checkConnection returned
  installed,      \* per socket: socket.onclose / onmessage have been installed
  closedBy,       \* per socket: the call of disconnect that called ws.close() (0: none)
  calls,          \* calls of disconnect so far
  emitted,        \* per call of disconnect: Disconnected events offered because of it
  relay,          \* what listens on localhost:9222 (RelayKinds)
  sends,          \* calls of send so far
  tx,             \* <<socket, message>>: messages handed to ws.send
  dropped,        \* messages whose send found the connection not open
  runs            \* per socket: runs of detachAll for Disconnected events about it

connVars == <<maintainRef, fiberRef, lpc, hs, cpc, cret, installed, closedBy,
              calls, emitted, relay, sends, tx, dropped, runs>>

Fibers == 1..MaxFibers

ConnIdle ==
  /\ maintainRef = FALSE
  /\ fiberRef = 0
  /\ lpc = [f \in Fibers |-> "none"]
  /\ hs = [f \in Fibers |-> 0]
  /\ cpc = "idle"
  /\ cret = "none"
  /\ installed = [s \in Sockets |-> FALSE]
  /\ closedBy = [s \in Sockets |-> 0]
  /\ calls = 0
  /\ emitted = [k \in 1..MaxCalls |-> 0]
  /\ relay = "down"
  /\ sends = 0
  /\ tx = {}
  /\ dropped = {}
  /\ runs = [s \in Sockets |-> 0]

\* The last command routed by CDPRouter.handleCommand and what it did.
VARIABLES
  routed,           \* NotRouted, or the command, the tab resolved and the outcome
  nextSessionIdRef, \* nextSessionIdRef of the registry
  sessionIds,       \* per tracked tab: the n of its TabInfo.sessionId "pw-tab-n"
  ac,               \* per get-or-attach request in progress: where it is
  attachLog         \* the Target.attachedToTarget events attach has sent

attachVars == <<nextSessionIdRef, sessionIds, ac, attachLog>>

routeVars == <<routed, attachVars>>

NotRouted == [cmd |-> 0]

Handlers == 1..MaxHandlers

NoCall ==
  [pc |-> "idle", method |-> "none", tab |-> NoTab, ok |-> FALSE,
   sessionId |-> 0, attached |-> FALSE]

RouteIdle ==
  /\ routed = NotRouted
  /\ nextSessionIdRef = 1
  /\ sessionIds = [t \in Tabs |-> 0]
  /\ ac = [h \in Handlers |-> NoCall]
  /\ attachLog = <<>>

\* The subscribers of GET /events.
VARIABLES
  sseClients,     \* state.sseClients: the controllers of the open streams
  streams,        \* per subscriber: the chunks enqueued and not yet read
  got,            \* per subscriber: the chunks read, in the order read
  rx,             \* frames of the extension that have been broadcast so far
  broken          \* the controllers whose enqueue throws

sseVars == <<sseClients, streams, got, rx, broken>>

Subscribers == 1..MaxSubscribers

SseIdle ==
  /\ sseClients = {}
  /\ streams = [c \in Subscribers |-> <<>>]
  /\ got = [c \in Subscribers |-> <<>>]
  /\ rx = 0
  /\ broken = {}

vars == <<relayVars, cfgVars, loopVars, timeVars, linkVars, regVars, connVars, routeVars, sseVars>>

\* ------------------------------------------------------------ configuration
\* A raw environment value is absent or a text; Number(text) is a table over
\* the texts the model draws, giving NaN, an infinity or a decimal number
\* held in tenths.
Unset == [tag |-> "undefined", text |-> ""]
Raw(text) == [tag |-> "string", text |-> text]
RawValues ==
  {Unset, Raw(""), Raw("abc"), Raw("Infinity"), Raw("-5"), Raw("0"),
   Raw("0.5"), Raw("1"), Raw("2999.9"), Raw("3000"), Raw("15000"),
   Raw("60000")}

NaN == [kind |-> "nan", tenths |-> 0]
Num(tenths) == [kind |-> "num", tenths |-> tenths]

\* Number(rawValue)
Number(rawValue) ==
  IF rawValue.tag = "undefined" THEN NaN
  ELSE CASE rawValue.text = "" -> Num(0)
         [] rawValue.text = "abc" -> NaN
         [] rawValue.text = "Infinity" -> [kind |-> "inf", tenths |-> 0]
         [] rawValue.text = "-5" -> Num(-50)
         [] rawValue.text = "0" -> Num(0)
         [] rawValue.text = "0.5" -> Num(5)
         [] rawValue.text = "1" -> Num(10)
         [] rawValue.text = "2999.9" -> Num(29999)
         [] rawValue.text = "3000" -> Num(30000)
         [] rawValue.text = "15000" -> Num(150000)
         [] rawValue.text = "60000" -> Num(600000)

\* Math.min
Min(a, b) == IF a <= b THEN a ELSE b

\* parsePositiveInt
parsePositiveInt(rawValue, fallback) ==
  LET parsed == Number(rawValue)
  IN IF parsed.kind # "num" \/ parsed.tenths <= 0 THEN fallback
     ELSE parsed.tenths \div 10

\* const REQUEST_TIMEOUT_MS, for the environment e
RequestTimeoutMs(e) == parsePositiveInt(e.SKILL_REQUEST_TIMEOUT_MS, 15000)

\* const HEALTH_PROBE_TIMEOUT_MS, for the environment e
HealthProbeTimeoutMs(e) ==
  parsePositiveInt(e.SKILL_HEALTH_PROBE_TIMEOUT_MS,
                   Min(3000, RequestTimeoutMs(e)))

NotLoaded == [loaded |-> FALSE, request |-> 0, health |-> 0]
LoadedConfig(e) ==
  [loaded |-> TRUE, request |-> RequestTimeoutMs(e),
   health |-> HealthProbeTimeoutMs(e)]

DefaultEnv ==
  [SKILL_REQUEST_TIMEOUT_MS |-> Unset, SKILL_HEALTH_PROBE_TIMEOUT_MS |-> Unset]

\* The relay runs with both settings unset.
CfgDefault ==
  /\ env = DefaultEnv
  /\ config = [loaded |-> TRUE, request |-> REQUEST_TIMEOUT_MS,
               health |-> HEALTH_PROBE_TIMEOUT_MS]

NoMade == [id |-> NoId, bodyId |-> NoId]

IdleReq == [phase |-> "idle", kind |-> "none", id |-> NoId]
DoneReq == [phase |-> "done", kind |-> "none", id |-> NoId]

EmptyMap == [k \in {} |-> NoId]

\* Map.delete
Remove(map, key) == [k \in DOMAIN map \ {key} |-> map[k]]

\* ws.readyState === WebSocket.OPEN for state.extension
ExtensionOpen == extension # NoSocket /\ sock[extension] = "open"

RelayInit ==
  /\ sock = [s \in Sockets |-> "none"]
  /\ extension = NoSocket
  /\ keepalive = NoSocket
  /\ intervals = {}
  /\ nextId = 1
  /\ pending = EmptyMap
  /\ timers = EmptyMap
  /\ req = [r \in Reqs |-> IdleReq]
  /\ issued = <<>>
  /\ made = NoMade
  /\ delivered = {}
  /\ sent = {}
  /\ broadcast = <<>>

Init ==
  /\ RelayInit
  /\ CfgDefault
  /\ LoopIdle
  /\ LinkIdle
  /\ RegIdle
  /\ ConnIdle
  /\ RouteIdle
  /\ SseIdle

\* ------------------------------------------------------ HTTP request bodies
\* The parsed body of POST /command, reduced to what the type guards read:
\* rec (isRecord), type, id (NoId absent, BadId present but not a number),
\* method, paramsOk (params is a record with a string method), innerOk
\* (params.params / params.targetId absent or well typed).
BadId == -1
Body(rec, type, id, method, paramsOk, innerOk) ==
  [rec |-> rec, type |-> type, id |-> id, method |-> method,
   paramsOk |-> paramsOk, innerOk |-> innerOk]
Bodies ==
  {Body(FALSE, "none", NoId, "bad", FALSE, FALSE),   \* not a JSON object
   Body(TRUE, "none", 1, "tab", TRUE, TRUE),         \* {id, method, params}
   Body(TRUE, "ping", 1, "tab", TRUE, TRUE),         \* the same, type "ping"
   Body(TRUE, "command", 1, "tab", TRUE, FALSE),     \* envelope with an id
   Body(TRUE, "command", NoId, "tab", TRUE, TRUE),   \* envelope without id
   Body(TRUE, "command", BadId, "tab", TRUE, TRUE),  \* envelope, id a string
   Body(TRUE, "command", NoId, "bad", TRUE, TRUE),   \* envelope, bad method
   Body(TRUE, "ping", NoId, "bad", FALSE, FALSE),    \* {type: "ping"}
   Body(TRUE, "none", NoId, "tab", TRUE, TRUE),      \* {method, params}
   Body(TRUE, "none", 1, "tab", TRUE, FALSE),        \* id, ill-typed inner params
   Body(TRUE, "none", NoId, "bad", TRUE, TRUE),      \* bad method
   Body(TRUE, "none", NoId, "tab", FALSE, TRUE)}     \* params without method

isExtensionMethod(m) == m \in {"cdp", "tab"}

isExtensionCommandMessage(v) ==
  /\ v.rec
  /\ v.id \notin {NoId, BadId}
  /\ isExtensionMethod(v.method)
  /\ v.paramsOk
  /\ v.innerOk

isClientEnvelope(v) ==
  /\ v.rec
  /\ \/ v.type = "ping"
     \/ /\ v.type = "command"
        /\ v.id # BadId
        /\ isExtensionMethod(v.method)
        /\ v.paramsOk

\* Mutant of makeCommand: state.nextId is read but not incremented.
makeCommand_NoIncrement(partial) ==
  [cmd |-> [id |-> nextId, method |-> partial.method], next |-> nextId]

\* makeCommand: the id is state.nextId, whatever partial.id holds; the
\* result carries the command and the new value of state.nextId.
makeCommand(partial) ==
  [cmd |-> [id |-> nextId, method |-> partial.method], next |-> nextId + 1]

NoCommand == [cmd |-> [id |-> NoId, method |-> "none"], next |-> nextId]

\* parseHttpCommandBody: null (NoCommand) or the command made from the body.
parseHttpCommandBody(body) ==
  IF ~body.rec THEN NoCommand
  ELSE IF isExtensionCommandMessage(body)
    THEN makeCommand([method |-> body.method, id |-> NoId])
  ELSE IF isClientEnvelope(body)
    THEN IF body.type # "command" THEN NoCommand
         ELSE makeCommand([method |-> body.method, id |-> NoId])
  ELSE IF ~isExtensionMethod(body.method) THEN NoCommand
  ELSE IF ~body.paramsOk THEN NoCommand
  ELSE makeCommand([method |-> body.method, id |-> NoId])

\* Mutant of handleHttpCommandResponse: `msg.result || null`.
handleHttpCommandResponse_OrNull(msg) ==
  [status |-> commandErrorToStatus(msg.error),
   ok |-> IF Truthy(msg.error) THEN FALSE ELSE TRUE,
   result |-> IF Truthy(msg.result) THEN msg.result ELSE Null,
   error |-> Coalesce(msg.error, Null)]

\* handleHttpCommand, after the await: the HTTP response built from msg.
handleHttpCommandResponse(msg) ==
  [status |-> commandErrorToStatus(msg.error),
   ok |-> IF Truthy(msg.error) THEN FALSE ELSE TRUE,
   result |-> Coalesce(msg.result, Null),
   error |-> Coalesce(msg.error, Null)]

\* runActiveTargetHealthProbe, after the await.
runActiveTargetHealthProbe(response) ==
  IF Truthy(response.error)
    THEN [ok |-> FALSE, browserResponsive |-> FALSE,
          browserBlocked |-> isTimeoutError(response.error)]
  ELSE IF ~(response.result.tag = "object"
            /\ Len(response.result.s) = 2
            /\ response.result.s[1] = "targetId"
            /\ response.result.s[2] # "")
    THEN [ok |-> FALSE, browserResponsive |-> FALSE, browserBlocked |-> FALSE]
  ELSE [ok |-> TRUE, browserResponsive |-> TRUE, browserBlocked |-> FALSE]

\* handleHealth, after the probe: status and ok of the GET /health response.
handleHealthResponse(msg) ==
  LET probe == runActiveTargetHealthProbe(msg)
  IN [status |-> IF probe.ok THEN 200 ELSE 503, ok |-> probe.ok,
      result |-> Undefined, error |-> Undefined,
      extensionConnected |-> TRUE,
      browserResponsive |-> probe.browserResponsive,
      browserBlocked |-> probe.browserBlocked]

\* The caller r's promise is resolved with msg and its continuation builds
\* the HTTP response.  how names the path that resolved it.
Resolve(r, rq, msg, how) ==
  [r |-> r, kind |-> rq.kind, id |-> rq.id, how |-> how, msg |-> msg,
   resp |-> IF rq.kind = "health" THEN handleHealthResponse(msg)
            ELSE handleHttpCommandResponse(msg)]

\* Mutant of respondPending: the oldest pending entry is resolved, whatever
\* id the message carries.
respondPending_Oldest(pendingId, msg, how) ==
  IF pendingId \notin DOMAIN pending
    THEN /\ delivered' = {}
         /\ UNCHANGED <<pending, timers, req>>
  ELSE LET oldest == CHOOSE k \in DOMAIN pending :
                       \A j \in DOMAIN pending : k <= j
           r == pending[oldest].req
       IN /\ timers' = Remove(timers, oldest)
          /\ pending' = Remove(pending, oldest)
          /\ delivered' = {Resolve(r, req[r], msg, how)}
          /\ req' = [req EXCEPT ![r] = DoneReq]

\* Mutant of respondPending: the entry is not deleted from state.pending.
respondPending_KeepsEntry(pendingId, msg, how) ==
  IF pendingId \notin DOMAIN pending
    THEN /\ delivered' = {}
         /\ UNCHANGED <<pending, timers, req>>
  ELSE LET r == pending[pendingId].req
       IN /\ timers' = Remove(timers, pendingId)
          /\ pending' = pending
          /\ delivered' = {Resolve(r, req[r], msg, how)}
          /\ req' = [req EXCEPT ![r] = DoneReq]

\* ------------------------------------------------------ pending table
respondPending(pendingId, msg, how) ==
  IF pendingId \notin DOMAIN pending
    THEN /\ delivered' = {}
         /\ UNCHANGED <<pending, timers, req>>
  ELSE LET r == pending[pendingId].req
       IN /\ timers' = Remove(timers, pendingId)
          /\ pending' = Remove(pending, pendingId)
          /\ delivered' = {Resolve(r, req[r], msg, how)}
          /\ req' = [req EXCEPT ![r] = DoneReq]

failAllPending(error, how) ==
  /\ timers' = [k \in DOMAIN timers \ DOMAIN pending |-> timers[k]]
  /\ pending' = EmptyMap
  /\ delivered' =
       {Resolve(pending[pendingId].req, req[pending[pendingId].req],
                [id |-> pendingId, result |-> Undefined, error |-> Str(error)],
                how) : pendingId \in DOMAIN pending}
  /\ req' = [r \in Reqs |->
       IF \E pendingId \in DOMAIN pending : pending[pendingId].req = r
         THEN DoneReq
       ELSE req[r]]

\* Mutant of sendCommandToExtension: no timer is armed.
sendCommandToExtension_NoTimer(r, rq, command, timeoutMs, includeBlockedHint) ==
  IF ~ExtensionOpen
    THEN /\ delivered' =
              {Resolve(r, rq, [id |-> command.id, result |-> Undefined,
                               error |-> Str(NOT_CONNECTED)], "notconnected")}
         /\ req' = [req EXCEPT ![r] = DoneReq]
         /\ sent' = {}
         /\ UNCHANGED <<pending, timers>>
  ELSE /\ timers' = timers
       /\ pending' = (command.id :> [req |-> r]) @@ pending
       /\ sent' = {<<extension, command.id>>}
       /\ delivered' = {}
       /\ req' = [req EXCEPT ![r] = [rq EXCEPT !.phase = "waiting"]]

\* Mutant of sendCommandToExtension: only `!ext` is tested, not readyState.
sendCommandToExtension_NullCheckOnly(r, rq, command, timeoutMs, includeBlockedHint) ==
  IF extension = NoSocket
    THEN /\ delivered' =
              {Resolve(r, rq, [id |-> command.id, result |-> Undefined,
                               error |-> Str(NOT_CONNECTED)], "notconnected")}
         /\ req' = [req EXCEPT ![r] = DoneReq]
         /\ sent' = {}
         /\ UNCHANGED <<pending, timers>>
  ELSE /\ timers' = (command.id :> [timeoutMs |-> timeoutMs,
                                     includeBlockedHint |-> includeBlockedHint])
                    @@ timers
       /\ pending' = (command.id :> [req |-> r]) @@ pending
       /\ sent' = {<<extension, command.id>>}
       /\ delivered' = {}
       /\ req' = [req EXCEPT ![r] = [rq EXCEPT !.phase = "waiting"]]

\* sendCommandToExtension for the caller r (rq: its request record).
sendCommandToExtension(r, rq, command, timeoutMs, includeBlockedHint) ==
  IF ~ExtensionOpen
    THEN /\ delivered' =
              {Resolve(r, rq, [id |-> command.id, result |-> Undefined,
                               error |-> Str(NOT_CONNECTED)], "notconnected")}
         /\ req' = [req EXCEPT ![r] = DoneReq]
         /\ sent' = {}
         /\ UNCHANGED <<pending, timers>>
  ELSE /\ timers' = (command.id :> [timeoutMs |-> timeoutMs,
                                     includeBlockedHint |-> includeBlockedHint])
                    @@ timers
       /\ pending' = (command.id :> [req |-> r]) @@ pending
       /\ sent' = {<<extension, command.id>>}
       /\ delivered' = {}
       /\ req' = [req EXCEPT ![r] = [rq EXCEPT !.phase = "waiting"]]

\* The setTimeout callback armed by sendCommandToExtension.
TimerFire(id) ==
  /\ id \in DOMAIN timers
  /\ respondPending(id,
       [id |-> id, result |-> Undefined,
        error |-> Str(makeTimeoutError(timers[id].timeoutMs,
                                       timers[id].includeBlockedHint))],
       "timeout")
  /\ sent' = {}
  /\ broadcast' = <<>>
  /\ made' = NoMade
  /\ UNCHANGED <<sock, extension, keepalive, intervals, nextId, issued>>

\* Request slots are taken in order.
FreeSlot(r) ==
  /\ req[r].phase = "idle"
  /\ IF r = 1 THEN TRUE ELSE req[r - 1].phase # "idle"

BadShapeResponse ==
  [status |-> 400, ok |-> FALSE, result |-> Undefined,
   error |-> Str(<<"Unrecognized command shape">>)]

\* POST /command with the given parsed body.
HttpCommand(r, body) ==
  /\ FreeSlot(r)
  /\ LET command == parseHttpCommandBody(body)
         rq == [IdleReq EXCEPT !.kind = "command", !.id = command.cmd.id]
     IN IF command.cmd.id = NoId
          THEN /\ delivered' =
                    {[r |-> r, kind |-> "command", id |-> NoId,
                      how |-> "badshape",
                      msg |-> [id |-> NoId, result |-> Undefined,
                               error |-> Undefined],
                      resp |-> BadShapeResponse]}
               /\ req' = [req EXCEPT ![r] = DoneReq]
               /\ sent' = {}
               /\ made' = NoMade
               /\ UNCHANGED <<nextId, issued, pending, timers>>
        ELSE /\ nextId' = command.next
             /\ issued' = Append(issued, command.cmd.id)
             /\ made' = [id |-> command.cmd.id, bodyId |-> body.id]
             /\ sendCommandToExtension(r, rq, command.cmd, REQUEST_TIMEOUT_MS, TRUE)
  /\ broadcast' = <<>>
  /\ UNCHANGED <<sock, extension, keepalive, intervals>>

SkippedHealthResponse ==
  [status |-> 503, ok |-> FALSE, result |-> Undefined, error |-> Undefined,
   extensionConnected |-> FALSE, browserResponsive |-> Null,
   browserBlocked |-> Null]

\* Mutant of Health: only `state.extension` is tested, not its readyState.
Health_NullCheckOnly(r) ==
  /\ FreeSlot(r)
  /\ IF extension = NoSocket
       THEN /\ delivered' =
                 {[r |-> r, kind |-> "health", id |-> NoId, how |-> "skipped",
                   msg |-> [id |-> NoId, result |-> Undefined,
                            error |-> Undefined],
                   resp |-> SkippedHealthResponse]}
            /\ req' = [req EXCEPT ![r] = DoneReq]
            /\ sent' = {}
            /\ made' = NoMade
            /\ UNCHANGED <<nextId, issued, pending, timers>>
     ELSE LET command == makeCommand([method |-> "tab", id |-> NoId])
              rq == [IdleReq EXCEPT !.kind = "health", !.id = command.cmd.id]
          IN /\ nextId' = command.next
             /\ issued' = Append(issued, command.cmd.id)
             /\ made' = [id |-> command.cmd.id, bodyId |-> NoId]
             /\ sendCommandToExtension(r, rq, command.cmd,
                                       HEALTH_PROBE_TIMEOUT_MS, FALSE)
  /\ broadcast' = <<>>
  /\ UNCHANGED <<sock, extension, keepalive, intervals>>

\* GET /health.
Health(r) ==
  /\ FreeSlot(r)
  /\ IF ~ExtensionOpen
       THEN /\ delivered' =
                 {[r |-> r, kind |-> "health", id |-> NoId, how |-> "skipped",
                   msg |-> [id |-> NoId, result |-> Undefined,
                            error |-> Undefined],
                   resp |-> SkippedHealthResponse]}
            /\ req' = [req EXCEPT ![r] = DoneReq]
            /\ sent' = {}
            /\ made' = NoMade
            /\ UNCHANGED <<nextId, issued, pending, timers>>
     ELSE LET command == makeCommand([method |-> "tab", id |-> NoId])
              rq == [IdleReq EXCEPT !.kind = "health", !.id = command.cmd.id]
          IN /\ nextId' = command.next
             /\ issued' = Append(issued, command.cmd.id)
             /\ made' = [id |-> command.cmd.id, bodyId |-> NoId]
             /\ sendCommandToExtension(r, rq, command.cmd,
                                       HEALTH_PROBE_TIMEOUT_MS, FALSE)
  /\ broadcast' = <<>>
  /\ UNCHANGED <<sock, extension, keepalive, intervals>>

\* -------------------------------------------------- frames from the extension
\* A text frame after safeJsonParse, reduced to what the type guards read:
\* rec (parsed to a record), id (NoId: absent or not a number), result, error,
\* method and paramsOk (params well typed for an event / a log).
FrameResults == {Undefined, Null, Zero, TargetObj}
FrameErrors ==
  {Undefined, Str(<<>>), Str(<<"No active tab found">>),
   Str(<<"Timeout after", " 30000ms waiting for selector">>)}
\* result-only frames, error-only frames, and one frame carrying both
ResponsePayloads ==
  {<<res, Undefined>> : res \in FrameResults}
  \cup {<<Undefined, err>> : err \in FrameErrors}
  \cup {<<TargetObj, Str(<<"No active tab found">>)>>}
ResponseFrames ==
  {[rec |-> TRUE, id |-> i, result |-> p[1], error |-> p[2],
    method |-> "none", paramsOk |-> FALSE] :
     i \in Ids, p \in ResponsePayloads}
OtherFrames ==
  {[rec |-> TRUE, id |-> NoId, result |-> Undefined, error |-> Undefined,
    method |-> m, paramsOk |-> ok] :
     m \in {"forwardCDPEvent", "log", "other"}, ok \in BOOLEAN}
  \cup {[rec |-> TRUE, id |-> 1, result |-> Undefined, error |-> Null,
         method |-> "none", paramsOk |-> FALSE],
        [rec |-> FALSE, id |-> NoId, result |-> Undefined, error |-> Undefined,
         method |-> "none", paramsOk |-> FALSE]}
Frames == ResponseFrames \cup OtherFrames

isExtensionResponseMessage(v) ==
  /\ v.rec
  /\ v.id # NoId
  /\ v.error.tag \in {"undefined", "string"}

isExtensionEventMessage(v) ==
  v.rec /\ v.method = "forwardCDPEvent" /\ v.paramsOk

isExtensionLogMessage(v) ==
  v.rec /\ v.method = "log" /\ v.paramsOk

StatusMessage(connected) ==
  [type |-> "status", extensionConnected |-> connected,
   result |-> Undefined, error |-> Undefined]

OrphanMessage(parsed) ==
  [type |-> "orphan-response", extensionConnected |-> FALSE,
   result |-> Coalesce(parsed.result, Null),
   error |-> Coalesce(parsed.error, Null)]

ForwardedMessage(type) ==
  [type |-> type, extensionConnected |-> FALSE,
   result |-> Undefined, error |-> Undefined]

\* Mutant of messageResponse: an orphan response is dropped silently.
messageResponse_DropOrphan(parsed) ==
  IF parsed.id \in DOMAIN pending
    THEN /\ respondPending(parsed.id,
              [id |-> parsed.id, result |-> parsed.result,
               error |-> parsed.error], "response")
         /\ broadcast' = <<>>
  ELSE /\ broadcast' = <<>>
       /\ delivered' = {}
       /\ UNCHANGED <<pending, timers, req>>

\* websocket.message, role "extension": a response frame.
messageResponse(parsed) ==
  IF parsed.id \in DOMAIN pending
    THEN /\ respondPending(parsed.id,
              [id |-> parsed.id, result |-> parsed.result,
               error |-> parsed.error], "response")
         /\ broadcast' = <<>>
  ELSE /\ broadcast' = <<OrphanMessage(parsed)>>
       /\ delivered' = {}
       /\ UNCHANGED <<pending, timers, req>>

\* Mutant of WsMessage: a frame with a pending id is taken as the response
\* whatever its shape.
WsMessage_AnyIdResponds(ws, parsed) ==
  /\ sock[ws] = "open"
  /\ IF isExtensionResponseMessage(parsed) \/ parsed.id \in DOMAIN pending
       THEN messageResponse(parsed)
     ELSE IF isExtensionEventMessage(parsed) \/ isExtensionLogMessage(parsed)
       THEN /\ broadcast' = <<ForwardedMessage(parsed.method)>>
            /\ delivered' = {}
            /\ UNCHANGED <<pending, timers, req>>
     ELSE /\ broadcast' = <<ForwardedMessage("unknown-from-extension")>>
          /\ delivered' = {}
          /\ UNCHANGED <<pending, timers, req>>
  /\ sent' = {}
  /\ made' = NoMade
  /\ UNCHANGED <<sock, extension, keepalive, intervals, nextId, issued>>

\* websocket.message
WsMessage(ws, parsed) ==
  /\ sock[ws] = "open"
  /\ IF isExtensionResponseMessage(parsed)
       THEN messageResponse(parsed)
     ELSE IF isExtensionEventMessage(parsed) \/ isExtensionLogMessage(parsed)
       THEN /\ broadcast' = <<ForwardedMessage(parsed.method)>>
            /\ delivered' = {}
            /\ UNCHANGED <<pending, timers, req>>
     ELSE /\ broadcast' = <<ForwardedMessage("unknown-from-extension")>>
          /\ delivered' = {}
          /\ UNCHANGED <<pending, timers, req>>
  /\ sent' = {}
  /\ made' = NoMade
  /\ UNCHANGED <<sock, extension, keepalive, intervals, nextId, issued>>

\* stopExtensionKeepalive: clearInterval of state.extensionKeepaliveId, if
\* set, and state.extensionKeepaliveId = null.
stopExtensionKeepalive ==
  /\ keepalive' = NoSocket
  /\ intervals' = intervals \ {keepalive}

\* Mutant of startExtensionKeepalive: the interval it replaces is not
\* cleared.
startExtensionKeepalive_NoStop(ws) ==
  /\ keepalive' = ws
  /\ intervals' = intervals \cup {ws}

\* startExtensionKeepalive(ws): stopExtensionKeepalive, then a setInterval
\* that pings ws is kept in state.extensionKeepaliveId.
startExtensionKeepalive(ws) ==
  /\ keepalive' = ws
  /\ intervals' = (intervals \ {keepalive}) \cup {ws}

\* websocket.open, role "extension"; sockets are numbered in order of arrival.
WsOpen(ws) ==
  /\ sock[ws] = "none"
  /\ IF ws = 1 THEN TRUE ELSE sock[ws - 1] # "none"
  /\ IF ExtensionOpen
       THEN /\ failAllPending(RECONNECTED, "replaced")
            /\ sock' = [sock EXCEPT ![ws] = "open", ![extension] = "closing"]
     ELSE /\ sock' = [sock EXCEPT ![ws] = "open"]
          /\ delivered' = {}
          /\ UNCHANGED <<pending, timers, req>>
  /\ extension' = ws
  /\ startExtensionKeepalive(ws)
  /\ broadcast' = <<StatusMessage(TRUE)>>
  /\ sent' = {}
  /\ made' = NoMade
  /\ UNCHANGED <<nextId, issued>>

\* The socket stops being OPEN (peer or network) before its close event.
SocketCloses(ws) ==
  /\ sock[ws] = "open"
  /\ sock' = [sock EXCEPT ![ws] = "closing"]
  /\ delivered' = {}
  /\ sent' = {}
  /\ broadcast' = <<>>
  /\ made' = NoMade
  /\ UNCHANGED <<extension, keepalive, intervals, nextId, pending, timers, req, issued>>

\* Mutant of WsClose: the close of a stale socket is not told apart.
WsClose_NoStaleCheck(ws) ==
  /\ sock[ws] = "closing"
  /\ sock' = [sock EXCEPT ![ws] = "closed"]
  /\ extension' = NoSocket
  /\ stopExtensionKeepalive
  /\ failAllPending(DISCONNECTED, "disconnect")
  /\ broadcast' = <<StatusMessage(FALSE)>>
  /\ sent' = {}
  /\ made' = NoMade
  /\ UNCHANGED <<nextId, issued>>

\* Mutant of WsClose: the close of a stale socket also broadcasts the status.
WsClose_StatusOnStale(ws) ==
  /\ sock[ws] = "closing"
  /\ sock' = [sock EXCEPT ![ws] = "closed"]
  /\ IF extension # ws
       THEN /\ delivered' = {}
            /\ broadcast' = <<StatusMessage(FALSE)>>
            /\ UNCHANGED <<extension, keepalive, intervals, pending, timers, req>>
     ELSE /\ extension' = NoSocket
          /\ stopExtensionKeepalive
          /\ failAllPending(DISCONNECTED, "disconnect")
          /\ broadcast' = <<StatusMessage(FALSE)>>
  /\ sent' = {}
  /\ made' = NoMade
  /\ UNCHANGED <<nextId, issued>>

\* websocket.close, role "extension".
WsClose(ws) ==
  /\ sock[ws] = "closing"
  /\ sock' = [sock EXCEPT ![ws] = "closed"]
  /\ IF extension # ws
       THEN /\ delivered' = {}
            /\ broadcast' = <<>>
            /\ UNCHANGED <<extension, keepalive, intervals, pending, timers, req>>
     ELSE /\ extension' = NoSocket
          /\ stopExtensionKeepalive
          /\ failAllPending(DISCONNECTED, "disconnect")
          /\ broadcast' = <<StatusMessage(FALSE)>>
  /\ sent' = {}
  /\ made' = NoMade
  /\ UNCHANGED <<nextId, issued>>

\* Everything that is not the relay's run-time state.
otherVars == <<cfgVars, loopVars, timeVars, linkVars, regVars, connVars, routeVars, sseVars>>

Next ==
  \/ \E r \in Reqs, body \in Bodies :
       HttpCommand(r, body) /\ UNCHANGED otherVars
  \/ \E r \in Reqs : Health(r) /\ UNCHANGED otherVars
  \/ \E id \in Ids : TimerFire(id) /\ UNCHANGED otherVars
  \/ \E ws \in Sockets : WsOpen(ws) /\ UNCHANGED otherVars
  \/ \E ws \in Sockets, parsed \in Frames :
       WsMessage(ws, parsed) /\ UNCHANGED otherVars
  \/ \E ws \in Sockets : SocketCloses(ws) /\ UNCHANGED otherVars
  \/ \E ws \in Sockets : WsClose(ws) /\ UNCHANGED otherVars

Spec == Init /\ [][Next]_vars

\* Every armed setTimeout callback eventually runs.
LiveSpec == Spec /\ \A id \in Ids : WF_vars(TimerFire(id) /\ UNCHANGED otherVars)

\* ------------------------------------------------ the subscribers of /events
\* GET /events answers with a ReadableStream; sseBroadcast enqueues a chunk
\* in the stream of every controller in state.sseClients, and a subscriber
\* reads the chunks of its stream from the front.  A chunk is kept here as
\* the type of its message, the connection whose handler broadcast it and its
\* number in the order of the broadcasts.
\* The hello and status chunks also carry their extensionConnected field.
HelloChunk ==
  [n |-> 0, conn |-> NoSocket, type |-> "hello", extensionConnected |-> ExtensionOpen]

Chunks(messages, ws) ==
  [i \in 1..Len(messages) |->
     [n |-> rx + i, conn |-> ws, type |-> messages[i].type,
      extensionConnected |-> messages[i].extensionConnected]]

\* Mutant of sseBroadcast: the chunk is put at the front of the stream.
sseBroadcast_AtFront(messages, ws) ==
  /\ rx' = rx + Len(messages)
  /\ streams' = [c \in Subscribers |->
                   IF c \in sseClients \ broken THEN Chunks(messages, ws) \o streams[c]
                   ELSE streams[c]]
  /\ UNCHANGED <<sseClients, got, broken>>

\* Mutant of sseBroadcast: no try/catch around controller.enqueue, so that
\* the loop ends at the first controller that throws (the Set is walked in
\* the order of the subscriptions, here the order of the numbers).
sseBroadcast_NoCatch(messages, ws) ==
  /\ rx' = rx + Len(messages)
  /\ streams' = [c \in Subscribers |->
                   IF c \in sseClients /\ \A b \in sseClients \cap broken : c < b
                     THEN streams[c] \o Chunks(messages, ws)
                   ELSE streams[c]]
  /\ UNCHANGED <<sseClients, got, broken>>

\* sseBroadcast(message), for the messages a handler of socket ws passes to
\* it: controller.enqueue on every controller of state.sseClients, each in
\* its own try/catch.
sseBroadcast(messages, ws) ==
  /\ rx' = rx + Len(messages)
  /\ streams' = [c \in Subscribers |->
                   IF c \in sseClients \ broken THEN streams[c] \o Chunks(messages, ws)
                   ELSE streams[c]]
  /\ UNCHANGED <<sseClients, got, broken>>

\* GET /events: start(controller) adds the controller to state.sseClients
\* and enqueues the hello chunk.
sseSubscribe(c) ==
  /\ c \notin sseClients
  /\ streams[c] = <<>>
  /\ got[c] = <<>>
  /\ sseClients' = sseClients \cup {c}
  /\ streams' = [streams EXCEPT ![c] = <<HelloChunk>>]
  /\ UNCHANGED <<got, rx, broken>>

\* cleanup (the request is aborted, or the stream cancelled): the controller
\* leaves state.sseClients and is closed; what is enqueued can still be read.
sseCleanup(c) ==
  /\ c \in sseClients
  /\ sseClients' = sseClients \ {c}
  /\ broken' = broken \ {c}
  /\ UNCHANGED <<streams, got, rx>>

\* The stream of a subscriber stops accepting chunks (it is errored, or its
\* reader has gone away) before cleanup has run: from then on
\* controller.enqueue throws.
sseBreaks(c) ==
  /\ c \in sseClients \ broken
  /\ broken' = broken \cup {c}
  /\ UNCHANGED <<sseClients, streams, got, rx>>

\* The subscriber reads the next chunk of its stream.
sseRead(c) ==
  /\ streams[c] # <<>>
  /\ got' = [got EXCEPT ![c] = Append(@, Head(streams[c]))]
  /\ streams' = [streams EXCEPT ![c] = Tail(@)]
  /\ UNCHANGED <<sseClients, rx, broken>>

\* Frames of the extension: an event, a log, one the relay does not know,
\* and a response no caller waits for.
SseFrames ==
  {f \in OtherFrames : f.rec /\ f.id = NoId /\ f.paramsOk}
    \cup {f \in ResponseFrames : f.id = 1 /\ f.result = TargetObj /\ f.error = Undefined}

sseOtherVars == <<cfgVars, loopVars, timeVars, linkVars, regVars, connVars, routeVars>>

SseNext ==
  \/ \E ws \in Sockets : WsOpen(ws) /\ sseBroadcast(broadcast', ws) /\ UNCHANGED sseOtherVars
  \/ \E ws \in Sockets, parsed \in SseFrames : rx < MaxFrames /\ WsMessage(ws, parsed) /\ sseBroadcast(broadcast', ws) /\ UNCHANGED sseOtherVars
  \/ \E ws \in Sockets : SocketCloses(ws) /\ sseBroadcast(broadcast', ws) /\ UNCHANGED sseOtherVars
  \/ \E ws \in Sockets : WsClose(ws) /\ sseBroadcast(broadcast', ws) /\ UNCHANGED sseOtherVars
  \/ \E c \in Subscribers : sseSubscribe(c) /\ UNCHANGED <<relayVars, sseOtherVars>>
  \/ \E c \in Subscribers : sseCleanup(c) /\ UNCHANGED <<relayVars, sseOtherVars>>
  \/ \E c \in Subscribers : sseRead(c) /\ UNCHANGED <<relayVars, sseOtherVars>>

SseSpec == Init /\ [][SseNext]_vars

\* Commands and their responses next to subscribers whose streams fail or
\* are not read: what a subscriber is given stays in its stream.
IsoNext ==
  \/ HttpCommand(1, Body(TRUE, "none", 1, "tab", TRUE, TRUE)) /\ UNCHANGED otherVars
  \/ \E ws \in Sockets : WsOpen(ws) /\ sseBroadcast(broadcast', ws) /\ UNCHANGED sseOtherVars
  \/ \E ws \in Sockets, parsed \in SseFrames : rx < MaxFrames /\ WsMessage(ws, parsed) /\ sseBroadcast(broadcast', ws) /\ UNCHANGED sseOtherVars
  \/ \E ws \in Sockets : SocketCloses(ws) /\ sseBroadcast(broadcast', ws) /\ UNCHANGED sseOtherVars
  \/ \E ws \in Sockets : WsClose(ws) /\ sseBroadcast(broadcast', ws) /\ UNCHANGED sseOtherVars
  \/ \E c \in Subscribers : sseSubscribe(c) /\ UNCHANGED <<relayVars, sseOtherVars>>
  \/ \E c \in Subscribers : sseCleanup(c) /\ UNCHANGED <<relayVars, sseOtherVars>>
  \/ \E c \in Subscribers : sseBreaks(c) /\ UNCHANGED <<relayVars, sseOtherVars>>

IsoSpec == Init /\ [][IsoNext]_vars

\* ------------------------------------------------- start-up configuration
\* The module-level constants are computed once, when the relay starts.
ConfigInit ==
  /\ env \in [SKILL_REQUEST_TIMEOUT_MS : RawValues,
               SKILL_HEALTH_PROBE_TIMEOUT_MS : RawValues]
  /\ config = NotLoaded
  /\ RelayInit
  /\ LoopIdle
  /\ LinkIdle
  /\ RegIdle
  /\ ConnIdle
  /\ RouteIdle
  /\ SseIdle

LoadConfig ==
  /\ ~config.loaded
  /\ config' = LoadedConfig(env)
  /\ UNCHANGED <<env, relayVars, loopVars, timeVars, linkVars, regVars,
                 connVars, routeVars, sseVars>>

ConfigNext == LoadConfig

ConfigSpec == ConfigInit /\ [][ConfigNext]_vars

\* ------------------------------------- the relay and the extension, in time
\* One extension socket; the relay's commands reach the extension's queue at
\* once; the extension's loop takes a command as soon as it is free and
\* answers as soon as the handler completes.  Times are in seconds.
Seconds(ms) == ms \div 1000

\* How long the handler of a "cdp" command may take (the browser's work).
CdpSeconds == {1, 5}

CdpBody == Body(TRUE, "none", NoId, "cdp", TRUE, TRUE)

\* What sendCommandToExtension adds to the timed state: the timer's firing
\* time and the frame's arrival in Connection.messages (socket.onmessage).
Dispatched(method) ==
  IF sent' = {} THEN UNCHANGED <<messagesQ, deadline>>
  ELSE /\ deadline' =
            [k \in DOMAIN timers' |->
               IF k \in DOMAIN timers THEN deadline[k]
               ELSE clock + Seconds(timers'[k].timeoutMs)]
       /\ messagesQ' = Append(messagesQ, [id |-> nextId, method |-> method,
                                          conn |-> extension])

TimedHttpCommand(r) ==
  /\ HttpCommand(r, CdpBody)
  /\ Dispatched("cdp")
  /\ UNCHANGED <<handling, finishAt, clock, cfgVars>>

TimedHealth(r) ==
  /\ Health(r)
  /\ Dispatched("tab")
  /\ UNCHANGED <<handling, finishAt, clock, cfgVars>>

TimedWsOpen ==
  /\ WsOpen(1)
  /\ UNCHANGED <<loopVars, timeVars, cfgVars>>

\* processMessages, Stream.runForEach: the next command is taken only when
\* the handler of the one before has completed and its response is sent.
processMessagesTake(seconds) ==
  /\ handling = NoMessage
  /\ messagesQ # <<>>
  /\ handling' = Head(messagesQ)
  /\ messagesQ' = Tail(messagesQ)
  /\ finishAt' =
       clock + (IF Head(messagesQ).method = "cdp" THEN seconds ELSE 0)
  /\ UNCHANGED <<relayVars, cfgVars, timeVars>>

\* processMessages: connection.send(response), received by the relay.
processMessagesSend ==
  /\ handling # NoMessage
  /\ clock >= finishAt
  /\ WsMessage(1, [rec |-> TRUE, id |-> handling.id, result |-> TargetObj,
                   error |-> Undefined, method |-> "none", paramsOk |-> FALSE])
  /\ handling' = NoMessage
  /\ deadline' = [k \in DOMAIN timers' |-> deadline[k]]
  /\ UNCHANGED <<messagesQ, finishAt, clock, cfgVars>>

TimedTimerFire(id) ==
  /\ id \in DOMAIN timers
  /\ clock >= deadline[id]
  /\ TimerFire(id)
  /\ deadline' = [k \in DOMAIN timers' |-> deadline[k]]
  /\ UNCHANGED <<loopVars, clock, cfgVars>>

\* A second passes: nothing is due (no timer, no response, no command to take).
Tick ==
  /\ clock < MaxClock
  /\ \A id \in DOMAIN timers : deadline[id] > clock
  /\ handling # NoMessage => finishAt > clock
  /\ handling = NoMessage => messagesQ = <<>>
  /\ clock' = clock + 1
  /\ UNCHANGED <<relayVars, cfgVars, loopVars, deadline>>

\* The registry and the extension's sockets are not followed here.
untimedVars == <<linkVars, regVars, connVars, routeVars, sseVars>>

TimedNext ==
  \/ TimedWsOpen /\ UNCHANGED untimedVars
  \/ \E r \in Reqs : TimedHttpCommand(r) /\ UNCHANGED untimedVars
  \/ \E r \in Reqs : TimedHealth(r) /\ UNCHANGED untimedVars
  \/ \E seconds \in CdpSeconds :
       processMessagesTake(seconds) /\ UNCHANGED untimedVars
  \/ processMessagesSend /\ UNCHANGED untimedVars
  \/ \E id \in Ids : TimedTimerFire(id) /\ UNCHANGED untimedVars
  \/ Tick /\ UNCHANGED untimedVars

TimedSpec == Init /\ [][TimedNext]_vars

\* ------------------------------------------------------- the tab registry
\* The extension's registry of attached tabs, driven by the commands of the
\* relay (processMessages), the lifecycle events of the connection
\* (processEvents) and the browser's events.  A step is what a fiber does
\* between two suspensions (a chrome.* promise); Ref reads and updates, the
\* logger and connection.send do not suspend.

\* targetInfo.targetId of a tab, as the browser reports it
TargetIdOf(tabId) == <<"target", tabId>>

\* Ids of the commands received so far.
Received ==
  DOMAIN answers \cup {messagesQ[i].id : i \in 1..Len(messagesQ)}
    \cup (IF handling = NoMessage THEN {} ELSE {handling.id})

\* socket.onmessage: a command of the relay is offered to messagesQ.
socketOnMessage ==
  /\ wsRef # 0
  /\ socks[wsRef] = "open"
  /\ Cardinality(Received) < MaxReq
  /\ messagesQ' = Append(messagesQ, [id |-> Cardinality(Received) + 1,
                                     method |-> "tab", conn |-> wsRef])
  /\ UNCHANGED <<handling, finishAt, linkVars, regVars>>

\* tryConnectOnce, after the handshake: Ref.set(wsRef, socket) and the
\* Connected event.  Sockets are numbered in order of creation.
socketEstablished(ws) ==
  /\ wsRef = 0
  /\ socks[ws] = "none"
  /\ IF ws = 1 THEN TRUE ELSE socks[ws - 1] # "none"
  /\ socks' = [socks EXCEPT ![ws] = "open"]
  /\ wsRef' = ws
  /\ eventsQ' = Append(eventsQ, [tag |-> "Connected", reason |-> "none",
                                 conn |-> ws])
  /\ UNCHANGED <<loopVars, regVars>>

\* socket.onclose of the socket held in wsRef.
socketOnClose ==
  /\ wsRef # 0
  /\ socks' = [socks EXCEPT ![wsRef] = "closed"]
  /\ wsRef' = 0
  /\ eventsQ' = Append(eventsQ, [tag |-> "Disconnected", reason |-> "close",
                                 conn |-> wsRef])
  /\ UNCHANGED <<loopVars, regVars>>

\* deleteTab and the bookkeeping of the removal
deleteTab(tabId) ==
  /\ tabsRef' = [t \in DOMAIN tabsRef \ {tabId} |-> tabsRef[t]]
  /\ via' = [t \in DOMAIN via \ {tabId} |-> via[t]]
  /\ gen' = [gen EXCEPT ![tabId] = @ + 1]

deleteChildSessionsForTab(tabId) ==
  childSessionsRef' =
    [c \in {k \in DOMAIN childSessionsRef : childSessionsRef[k] # tabId} |->
       childSessionsRef[c]]

\* The handler of `handling` returns (or fails) and processMessages sends
\* the response; what it did is recorded for the command.
Answer(tabId, ok, attached) ==
  /\ answers' =
       (handling.id :>
          [tab |-> tabId, ok |-> ok, attached |-> attached,
           targetId |-> IF ok THEN tabsRef'[tabId] ELSE <<>>,
           tracked |-> tabId \in DOMAIN tabsRef',
           gen |-> IF tabId = NoTab THEN 0 ELSE gen[tabId],
           others |-> {messagesQ[i].id : i \in 1..Len(messagesQ)}])
       @@ answers
  /\ handling' = NoMessage
  /\ mpc' = "idle"
  /\ mtab' = NoTab

\* processMessages takes the next command; tabs.handleCommand starts
\* getActiveTargetId, which awaits chrome.tabs.query.
handleCommand ==
  /\ mpc = "idle"
  /\ processMessagesTake(0)
  /\ mpc' = "query"
  /\ UNCHANGED <<linkVars, tabsRef, childSessionsRef, debuggee, closed, mtab,
                 epc, todo, via, gen, answers>>

\* Mutant of getActiveTargetId: the registry is not consulted before attach.
getActiveTargetId_AlwaysAttach(tabId) ==
  /\ mpc = "query"
  /\ tabId \notin closed
  /\ IF tabId = NoTab
       THEN /\ mpc' = "dead"
            /\ UNCHANGED <<tabsRef, via, answers, handling, mtab>>
     ELSE /\ mpc' = "attach"
          /\ mtab' = tabId
          /\ UNCHANGED <<tabsRef, via, answers, handling>>
  /\ UNCHANGED <<messagesQ, finishAt, linkVars, childSessionsRef, debuggee,
                 closed, epc, todo, gen>>

\* getActiveTargetId, resumed with the active tab (NoTab: none): the tracked
\* targetId is returned, or attach(tabId) calls chrome.debugger.attach.
\* Without an active tab the generator throws: the error is a defect, which
\* the catchAll of processMessages does not handle, so no response is sent
\* and the processMessages fiber ends ("dead").
getActiveTargetId(tabId) ==
  /\ mpc = "query"
  /\ tabId \notin closed
  /\ IF tabId = NoTab
       THEN /\ mpc' = "dead"
            /\ UNCHANGED <<tabsRef, via, answers, handling, mtab>>
     ELSE IF tabId \in DOMAIN tabsRef
       THEN /\ UNCHANGED <<tabsRef, via>>
            /\ Answer(tabId, TRUE, FALSE)
     ELSE /\ mpc' = "attach"
          /\ mtab' = tabId
          /\ UNCHANGED <<tabsRef, via, answers, handling>>
  /\ UNCHANGED <<messagesQ, finishAt, linkVars, childSessionsRef, debuggee,
                 closed, epc, todo, gen>>

\* attach, resumed by chrome.debugger.attach: on success it calls
\* Target.getTargetInfo.  The browser refuses a second attach to a tab.
attachResumed(ok) ==
  /\ mpc = "attach"
  /\ ok => mtab \notin debuggee \cup closed
  /\ IF ok
       THEN /\ debuggee' = debuggee \cup {mtab}
            /\ mpc' = "info"
            /\ UNCHANGED <<tabsRef, answers, handling, mtab>>
     ELSE /\ UNCHANGED <<debuggee, tabsRef>>
          /\ Answer(mtab, FALSE, TRUE)
  /\ UNCHANGED <<messagesQ, finishAt, linkVars, childSessionsRef, closed, epc,
                 todo, via, gen>>

\* attach, resumed by Target.getTargetInfo: setTab, the attachedToTarget
\* event, and the result.  The command fails when the debugger is gone.
attachInfoResumed(ok) ==
  /\ mpc = "info"
  /\ ok => mtab \in debuggee \ closed
  /\ IF ok
       THEN /\ tabsRef' =
                 [t \in DOMAIN tabsRef \cup {mtab} |->
                    IF t = mtab THEN TargetIdOf(mtab) ELSE tabsRef[t]]
            /\ via' =
                 [t \in DOMAIN via \cup {mtab} |->
                    IF t = mtab THEN [cmd |-> handling.conn, at |-> wsRef]
                    ELSE via[t]]
            /\ Answer(mtab, TRUE, TRUE)
     ELSE /\ UNCHANGED <<tabsRef, via>>
          /\ Answer(mtab, FALSE, TRUE)
  /\ UNCHANGED <<messagesQ, finishAt, linkVars, childSessionsRef, debuggee,
                 closed, epc, todo, gen>>

\* processEvents takes the next lifecycle event.  Connected is dropped;
\* Disconnected runs detachAll, which reads the tab map and awaits
\* chrome.debugger.detach for its first key (no key: both maps are set empty).
processEvents ==
  /\ epc = "idle"
  /\ eventsQ # <<>>
  /\ eventsQ' = Tail(eventsQ)
  /\ IF Head(eventsQ).tag = "Disconnected" /\ DOMAIN tabsRef # {}
       THEN /\ epc' = "detaching"
            /\ todo' = DOMAIN tabsRef
            /\ UNCHANGED childSessionsRef
     ELSE /\ IF Head(eventsQ).tag = "Disconnected"
               THEN childSessionsRef' = [c \in {} |-> NoTab]
             ELSE UNCHANGED childSessionsRef
          /\ UNCHANGED <<epc, todo>>
  /\ UNCHANGED <<loopVars, socks, wsRef, tabsRef, debuggee, closed, mpc, mtab,
                 via, gen, answers>>

\* Mutant of detachAll: the maps are cleared and the debugger is left
\* attached.
detachAll_NoDebuggerDetach(tabId) ==
  /\ epc = "detaching"
  /\ tabId \in todo
  /\ debuggee' = debuggee
  /\ todo' = todo \ {tabId}
  /\ IF todo' = {}
       THEN /\ tabsRef' = [t \in {} |-> <<>>]
            /\ childSessionsRef' = [c \in {} |-> NoTab]
            /\ via' = [t \in {} |-> [cmd |-> 0, at |-> 0]]
            /\ gen' = [t \in Tabs |->
                         IF t \in DOMAIN tabsRef THEN gen[t] + 1 ELSE gen[t]]
            /\ epc' = "idle"
     ELSE UNCHANGED <<tabsRef, childSessionsRef, via, gen, epc>>
  /\ UNCHANGED <<loopVars, linkVars, closed, mpc, mtab, answers>>

\* detachAll, resumed by chrome.debugger.detach of one tab of its snapshot
\* (errors are caught): the next tab, or after the last one both maps are
\* set empty.
detachAll(tabId) ==
  /\ epc = "detaching"
  /\ tabId \in todo
  /\ debuggee' = debuggee \ {tabId}
  /\ todo' = todo \ {tabId}
  /\ IF todo' = {}
       THEN /\ tabsRef' = [t \in {} |-> <<>>]
            /\ childSessionsRef' = [c \in {} |-> NoTab]
            /\ via' = [t \in {} |-> [cmd |-> 0, at |-> 0]]
            /\ gen' = [t \in Tabs |->
                         IF t \in DOMAIN tabsRef THEN gen[t] + 1 ELSE gen[t]]
            /\ epc' = "idle"
     ELSE UNCHANGED <<tabsRef, childSessionsRef, via, gen, epc>>
  /\ UNCHANGED <<loopVars, linkVars, closed, mpc, mtab, answers>>

\* Mutant of detach: the child sessions of the tab are kept.
detach_KeepChildren(tabId, shouldDetachDebugger) ==
  /\ IF tabId \in DOMAIN tabsRef
       THEN /\ deleteTab(tabId)
            /\ UNCHANGED childSessionsRef
            /\ debuggee' =
                 IF shouldDetachDebugger THEN debuggee \ {tabId} ELSE debuggee
     ELSE UNCHANGED <<tabsRef, via, gen, childSessionsRef, debuggee>>

\* detach(tabId, shouldDetachDebugger)
detach(tabId, shouldDetachDebugger) ==
  /\ IF tabId \in DOMAIN tabsRef
       THEN /\ deleteTab(tabId)
            /\ deleteChildSessionsForTab(tabId)
            /\ debuggee' =
                 IF shouldDetachDebugger THEN debuggee \ {tabId} ELSE debuggee
     ELSE UNCHANGED <<tabsRef, via, gen, childSessionsRef, debuggee>>

\* chrome.tabs.onRemoved: a tab is closed; a tracked tab is detached without
\* detaching the debugger.
tabsOnRemoved(tabId) ==
  /\ tabId \notin closed
  /\ closed' = closed \cup {tabId}
  /\ detach(tabId, FALSE)
  /\ UNCHANGED <<loopVars, linkVars, mpc, mtab, epc, todo, answers>>

\* handleDebuggerDetach(tabId)
handleDebuggerDetach(tabId) ==
  /\ IF tabId \in DOMAIN tabsRef
       THEN /\ deleteChildSessionsForTab(tabId)
            /\ deleteTab(tabId)
     ELSE UNCHANGED <<tabsRef, via, gen, childSessionsRef>>

\* chrome.debugger.onDetach: the browser has detached the debugger from a
\* tab (the user cancelled debugging, or the target was closed).
onDebuggerDetach(tabId) ==
  /\ tabId \in debuggee
  /\ debuggee' = debuggee \ {tabId}
  /\ handleDebuggerDetach(tabId)
  /\ UNCHANGED <<loopVars, linkVars, closed, mpc, mtab, epc, todo, answers>>

DebuggerEvents ==
  {"Target.attachedToTarget", "Target.detachedFromTarget", "Page.loadEventFired"}

\* handleDebuggerEvent(source, method, params), params.sessionId = child
handleDebuggerEvent(tabId, method, child) ==
  IF tabId \notin DOMAIN tabsRef
    THEN UNCHANGED childSessionsRef
  ELSE IF method = "Target.attachedToTarget"
    THEN childSessionsRef' =
           [c \in DOMAIN childSessionsRef \cup {child} |->
              IF c = child THEN tabId ELSE childSessionsRef[c]]
  ELSE IF method = "Target.detachedFromTarget"
    THEN childSessionsRef' =
           [c \in DOMAIN childSessionsRef \ {child} |-> childSessionsRef[c]]
  ELSE UNCHANGED childSessionsRef

\* chrome.debugger.onEvent: an event of a tab the debugger is attached to.
onDebuggerEvent(tabId, method, child) ==
  /\ tabId \in debuggee
  /\ handleDebuggerEvent(tabId, method, child)
  /\ UNCHANGED <<loopVars, linkVars, tabsRef, debuggee, closed, mpc, mtab, epc,
                 todo, via, gen, answers>>

regOtherVars == <<relayVars, cfgVars, timeVars, connVars, routeVars, sseVars>>

RegNext ==
  \/ \E ws \in Sockets : socketEstablished(ws) /\ UNCHANGED regOtherVars
  \/ socketOnClose /\ UNCHANGED regOtherVars
  \/ socketOnMessage /\ UNCHANGED regOtherVars
  \/ handleCommand /\ UNCHANGED <<connVars, routeVars, sseVars>>
  \/ \E tabId \in Tabs \cup {NoTab} : getActiveTargetId(tabId) /\ UNCHANGED regOtherVars
  \/ \E ok \in BOOLEAN : attachResumed(ok) /\ UNCHANGED regOtherVars
  \/ \E ok \in BOOLEAN : attachInfoResumed(ok) /\ UNCHANGED regOtherVars
  \/ processEvents /\ UNCHANGED regOtherVars
  \/ \E tabId \in Tabs : detachAll(tabId) /\ UNCHANGED regOtherVars
  \/ \E tabId \in Tabs : tabsOnRemoved(tabId) /\ UNCHANGED regOtherVars
  \/ \E tabId \in Tabs : onDebuggerDetach(tabId) /\ UNCHANGED regOtherVars
  \/ \E tabId \in Tabs, method \in DebuggerEvents, child \in Children : onDebuggerEvent(tabId, method, child) /\ UNCHANGED regOtherVars

RegSpec == Init /\ [][RegNext]_vars

\* The processMessages fiber is scheduled, and the chrome.* promises its
\* handler awaits settle.
LiveRegSpec ==
  /\ RegSpec
  /\ WF_vars(handleCommand /\ UNCHANGED <<connVars, routeVars, sseVars>>)
  /\ WF_vars(\E tabId \in Tabs \cup {NoTab} : getActiveTargetId(tabId) /\ UNCHANGED regOtherVars)
  /\ WF_vars(\E ok \in BOOLEAN : attachResumed(ok) /\ UNCHANGED regOtherVars)
  /\ WF_vars(\E ok \in BOOLEAN : attachInfoResumed(ok) /\ UNCHANGED regOtherVars)

\* ------------------------------------------------------- the CDP router
\* CDPRouter.handleCommand finds the tab a forwardCDPCommand is for.  The
\* registry is the one of TabManager: every entry has a sessionId of its own,
\* "pw-tab-n" with n taken from a counter at each attach, so an entry made
\* anew has a new one; the sessionIds of child sessions are given by the
\* browser and are none of these.
NoSessionId == <<>>
NoTargetId == <<>>

sessionIdOf(tabId) == <<"pw-tab", tabId, gen[tabId]>>

childSessionId(child) == <<"cdp", child>>

getBySessionId(sessionId) ==
  IF \E t \in DOMAIN tabsRef : sessionIdOf(t) = sessionId
    THEN CHOOSE t \in DOMAIN tabsRef : sessionIdOf(t) = sessionId
  ELSE NoTab

getParentTabId(sessionId) ==
  IF Len(sessionId) = 2 /\ sessionId[2] \in DOMAIN childSessionsRef
    THEN childSessionsRef[sessionId[2]]
  ELSE NoTab

getByTargetId(targetId) ==
  IF \E t \in DOMAIN tabsRef : tabsRef[t] = targetId
    THEN CHOOSE t \in DOMAIN tabsRef : tabsRef[t] = targetId
  ELSE NoTab

\* Mutant of resolveTarget: params.targetId is looked up before the
\* sessionId.
resolveTarget_TargetIdFirst(cmd) ==
  LET byTarget == IF cmd.targetId # NoTargetId
                    THEN getByTargetId(cmd.targetId) ELSE NoTab
      own == IF byTarget = NoTab /\ cmd.sessionId # NoSessionId
               THEN getBySessionId(cmd.sessionId) ELSE NoTab
      tabId1 == IF byTarget # NoTab THEN byTarget ELSE own
      parent == IF tabId1 = NoTab /\ cmd.sessionId # NoSessionId
                  THEN getParentTabId(cmd.sessionId) ELSE NoTab
      tabId2 == IF parent # NoTab THEN parent ELSE tabId1
  IN [targetTabId |-> tabId2, targetTab |-> tabId2 \in DOMAIN tabsRef]

\* The head of handleCommand: targetTabId and targetTab (here: whether it is
\* defined) after the three lookups.
resolveTarget(cmd) ==
  LET own == IF cmd.sessionId # NoSessionId
               THEN getBySessionId(cmd.sessionId) ELSE NoTab
      parent == IF own = NoTab /\ cmd.sessionId # NoSessionId
                  THEN getParentTabId(cmd.sessionId) ELSE NoTab
      tabId2 == IF parent # NoTab THEN parent ELSE own
      tab2 == IF parent # NoTab THEN parent \in DOMAIN tabsRef ELSE own # NoTab
      byTarget == IF ~tab2 /\ cmd.targetId # NoTargetId
                    THEN getByTargetId(cmd.targetId) ELSE NoTab
      tabId3 == IF byTarget # NoTab THEN byTarget ELSE tabId2
      tab3 == IF byTarget # NoTab THEN TRUE ELSE tab2
  IN [targetTabId |-> tabId3, targetTab |-> tab3]

\* Methods that use the resolved tab: two the router answers itself after a
\* chrome.tabs call, Runtime.enable, and one that is forwarded as it is.
RouteMethods ==
  {"Target.closeTarget", "Target.activateTarget", "Runtime.enable", "Page.navigate"}

RouteSessionIds ==
  {NoSessionId}
    \cup {<<"pw-tab", t, g>> : t \in Tabs, g \in 0..MaxGen}
    \cup {childSessionId(c) : c \in Children \cup {"child-2"}}

RouteTargetIds == {NoTargetId} \cup {TargetIdOf(t) : t \in Tabs \cup {MaxTabs + 1}}

RouteCommands ==
  [method : RouteMethods, sessionId : RouteSessionIds, targetId : RouteTargetIds]

\* What handleCommand does with the command once the tab is resolved:
\* `sent` are the chrome.debugger.sendCommand calls (tab, session, method),
\* `tabs` the chrome.tabs call, `error` the error thrown.
Outcome(cmd) ==
  LET r == resolveTarget(cmd)
      debuggee0 == r.targetTabId # NoTab
      none == [sent |-> <<>>, tabs |-> "none", error |-> "none",
               result |-> "none"]
  IN CASE cmd.method = "Runtime.enable" ->
            IF ~debuggee0
              THEN [none EXCEPT !.error = "No debuggee found"]
            ELSE [none EXCEPT
                    !.sent = <<[tabId |-> r.targetTabId, sessionId |-> NoSessionId,
                                method |-> "Runtime.disable"],
                               [tabId |-> r.targetTabId, sessionId |-> NoSessionId,
                                method |-> "Runtime.enable"]>>,
                    !.result = "sendCommand"]
       [] cmd.method = "Target.closeTarget" ->
            IF r.targetTabId = NoTab
              THEN [none EXCEPT !.result = "success: false"]
            ELSE [none EXCEPT !.tabs = "remove", !.result = "success: true"]
       [] cmd.method = "Target.activateTarget" ->
            IF r.targetTabId = NoTab
              THEN [none EXCEPT !.result = "{}"]
            ELSE [none EXCEPT !.tabs = "update", !.result = "{}"]
       [] OTHER ->
            IF ~debuggee0 \/ ~r.targetTab
              THEN [none EXCEPT !.error = "No tab found"]
            ELSE [none EXCEPT
                    !.sent = <<[tabId |-> r.targetTabId,
                                sessionId |->
                                  IF cmd.sessionId # sessionIdOf(r.targetTabId)
                                    THEN cmd.sessionId ELSE NoSessionId,
                                method |-> cmd.method]>>,
                    !.result = "sendCommand"]

\* CDPRouter.handleCommand(msg) for a forwardCDPCommand
cdpHandleCommand(cmd) ==
  /\ routed = NotRouted
  /\ routed' = [cmd |-> cmd, targetTabId |-> resolveTarget(cmd).targetTabId,
                outcome |-> Outcome(cmd)]
  /\ UNCHANGED <<relayVars, cfgVars, loopVars, timeVars, linkVars, regVars,
                 connVars, sseVars, attachVars>>

\* processMessages goes on to the next command.
cdpReturn ==
  /\ routed # NotRouted
  /\ routed' = NotRouted
  /\ UNCHANGED <<relayVars, cfgVars, loopVars, timeVars, linkVars, regVars,
                 connVars, sseVars, attachVars>>

\* The registries handleCommand can meet: tracked tabs with their targetIds,
\* attached, and child sessions whose parent is tracked.
RegistryWellFormed ==
  /\ \A t \in DOMAIN tabsRef : t \in Tabs /\ tabsRef[t] = TargetIdOf(t)
  /\ \A c \in DOMAIN childSessionsRef : c \in Children /\ childSessionsRef[c] \in DOMAIN tabsRef

RouteInit ==
  /\ RelayInit
  /\ CfgDefault
  /\ LoopIdle
  /\ LinkIdle
  /\ ConnIdle
  /\ RouteIdle
  /\ SseIdle
  /\ tabsRef \in {[t \in S |-> TargetIdOf(t)] : S \in SUBSET Tabs}
  /\ childSessionsRef \in UNION {[D -> DOMAIN tabsRef] : D \in SUBSET Children}
  /\ gen \in [Tabs -> 0..MaxGen]
  /\ debuggee = DOMAIN tabsRef
  /\ via = [t \in DOMAIN tabsRef |-> [cmd |-> 0, at |-> 0]]
  /\ closed = {}
  /\ mpc = "idle"
  /\ mtab = NoTab
  /\ epc = "idle"
  /\ todo = {}
  /\ answers = [i \in {} |-> 0]

RouteNext ==
  \/ \E cmd \in RouteCommands : cdpHandleCommand(cmd)
  \/ cdpReturn

RouteSpec == RouteInit /\ [][RouteNext]_vars

\* ------------------------------------- get-or-attach requests of the router
\* VibeBrowser.attachTab and Target.attachToTarget look the tab up in the
\* registry and call the registry's attach for a tab that is not tracked.
\* attach awaits chrome.debugger.attach and Target.getTargetInfo; what lies
\* between two awaits is one step.  The requests are kept per handler, so
\* that the calls of attach may also overlap.
Returned(method, tabId, ok, sessionId, attached) ==
  [pc |-> "done", method |-> method, tab |-> tabId, ok |-> ok,
   sessionId |-> sessionId, attached |-> attached]

Calling(pc, method, tabId) ==
  [pc |-> pc, method |-> method, tab |-> tabId, ok |-> FALSE,
   sessionId |-> 0, attached |-> FALSE]

\* Mutant of attachTab: the registry is not consulted before attach.
attachTab_AlwaysAttach(h, tabId) ==
  /\ ac[h].pc = "idle"
  /\ nextSessionIdRef <= MaxSessions
  /\ ac' = [ac EXCEPT ![h] = Calling("attach", "VibeBrowser.attachTab", tabId)]
  /\ UNCHANGED <<nextSessionIdRef, sessionIds, attachLog, regVars>>

\* case "VibeBrowser.attachTab": the stored sessionId of a tracked tab, or
\* tabs.attach(tabId), which calls chrome.debugger.attach.
attachTab(h, tabId) ==
  /\ ac[h].pc = "idle"
  /\ nextSessionIdRef <= MaxSessions
  /\ IF tabId \in DOMAIN tabsRef
       THEN ac' = [ac EXCEPT ![h] = Returned("VibeBrowser.attachTab", tabId, TRUE, sessionIds[tabId], FALSE)]
     ELSE ac' = [ac EXCEPT ![h] = Calling("attach", "VibeBrowser.attachTab", tabId)]
  /\ UNCHANGED <<nextSessionIdRef, sessionIds, attachLog, regVars>>

\* case "Target.attachToTarget": the stored sessionId of the tab tracked
\* with this targetId, or listChromeTargets (chrome.debugger.getTargets).
attachToTarget(h, targetId) ==
  /\ ac[h].pc = "idle"
  /\ nextSessionIdRef <= MaxSessions
  /\ IF getByTargetId(targetId) # NoTab
       THEN ac' = [ac EXCEPT ![h] = Returned("Target.attachToTarget", getByTargetId(targetId), TRUE, sessionIds[getByTargetId(targetId)], FALSE)]
     ELSE ac' = [ac EXCEPT ![h] = Calling("targets", "Target.attachToTarget", CHOOSE t \in Tabs : TargetIdOf(t) = targetId)]
  /\ UNCHANGED <<nextSessionIdRef, sessionIds, attachLog, regVars>>

\* Target.attachToTarget, resumed with the targets of the browser: it throws
\* when none is a tab with this targetId, and calls tabs.attach otherwise.
listChromeTargetsResumed(h) ==
  /\ ac[h].pc = "targets"
  /\ IF ac[h].tab \in closed
       THEN ac' = [ac EXCEPT ![h] = Returned(@.method, @.tab, FALSE, 0, FALSE)]
     ELSE ac' = [ac EXCEPT ![h].pc = "attach"]
  /\ UNCHANGED <<nextSessionIdRef, sessionIds, attachLog, regVars>>

\* attach(tabId) of the registry, resumed by chrome.debugger.attach: on
\* success it calls Target.getTargetInfo.  The browser refuses a second
\* attach to a tab.
attachDebuggerResumed(h, ok) ==
  /\ ac[h].pc = "attach"
  /\ ok => ac[h].tab \notin debuggee \cup closed
  /\ IF ok
       THEN /\ debuggee' = debuggee \cup {ac[h].tab}
            /\ ac' = [ac EXCEPT ![h].pc = "info"]
     ELSE /\ UNCHANGED debuggee
          /\ ac' = [ac EXCEPT ![h] = Returned(@.method, @.tab, FALSE, 0, TRUE)]
  /\ UNCHANGED <<nextSessionIdRef, sessionIds, attachLog, tabsRef,
                 childSessionsRef, closed, mpc, mtab, epc, todo, via, gen,
                 answers>>

\* Mutant of attachTargetInfoResumed: nextSessionIdRef is read and not set.
attachTargetInfoResumed_NoIncrement(h, ok) ==
  /\ ac[h].pc = "info"
  /\ ok => ac[h].tab \in debuggee \ closed
  /\ IF ok
       THEN /\ UNCHANGED nextSessionIdRef
            /\ sessionIds' = [sessionIds EXCEPT ![ac[h].tab] = nextSessionIdRef]
            /\ tabsRef' =
                 [t \in DOMAIN tabsRef \cup {ac[h].tab} |->
                    IF t = ac[h].tab THEN TargetIdOf(t) ELSE tabsRef[t]]
            /\ attachLog' = Append(attachLog, [tab |-> ac[h].tab, sessionId |-> nextSessionIdRef])
            /\ ac' = [ac EXCEPT ![h] = Returned(@.method, @.tab, TRUE, nextSessionIdRef, TRUE)]
     ELSE /\ UNCHANGED <<nextSessionIdRef, sessionIds, tabsRef, attachLog>>
          /\ ac' = [ac EXCEPT ![h] = Returned(@.method, @.tab, FALSE, 0, TRUE)]
  /\ UNCHANGED <<childSessionsRef, debuggee, closed, mpc, mtab, epc, todo, via,
                 gen, answers>>

\* attach(tabId) of the registry, resumed by Target.getTargetInfo: the
\* sessionId is made of nextSessionIdRef, which is set to the next number,
\* the entry is stored and Target.attachedToTarget is sent.  A failure of
\* Target.getTargetInfo fails attach where it stands.
attachTargetInfoResumed(h, ok) ==
  /\ ac[h].pc = "info"
  /\ ok => ac[h].tab \in debuggee \ closed
  /\ IF ok
       THEN /\ nextSessionIdRef' = nextSessionIdRef + 1
            /\ sessionIds' = [sessionIds EXCEPT ![ac[h].tab] = nextSessionIdRef]
            /\ tabsRef' =
                 [t \in DOMAIN tabsRef \cup {ac[h].tab} |->
                    IF t = ac[h].tab THEN TargetIdOf(t) ELSE tabsRef[t]]
            /\ attachLog' = Append(attachLog, [tab |-> ac[h].tab, sessionId |-> nextSessionIdRef])
            /\ ac' = [ac EXCEPT ![h] = Returned(@.method, @.tab, TRUE, nextSessionIdRef, TRUE)]
     ELSE /\ UNCHANGED <<nextSessionIdRef, sessionIds, tabsRef, attachLog>>
          /\ ac' = [ac EXCEPT ![h] = Returned(@.method, @.tab, FALSE, 0, TRUE)]
  /\ UNCHANGED <<childSessionsRef, debuggee, closed, mpc, mtab, epc, todo, via,
                 gen, answers>>

\* The handler's result has been sent; the next request can be handled.
handlerReturns(h) ==
  /\ ac[h].pc = "done"
  /\ ac' = [ac EXCEPT ![h] = NoCall]
  /\ UNCHANGED <<nextSessionIdRef, sessionIds, attachLog, regVars>>

attachOtherVars == <<relayVars, cfgVars, loopVars, timeVars, linkVars, connVars, sseVars, routed>>

AttachNext ==
  \/ \E h \in Handlers, tabId \in Tabs : attachTab(h, tabId) /\ UNCHANGED attachOtherVars
  \/ \E h \in Handlers, tabId \in Tabs : attachToTarget(h, TargetIdOf(tabId)) /\ UNCHANGED attachOtherVars
  \/ \E h \in Handlers : listChromeTargetsResumed(h) /\ UNCHANGED attachOtherVars
  \/ \E h \in Handlers, ok \in BOOLEAN : attachDebuggerResumed(h, ok) /\ UNCHANGED attachOtherVars
  \/ \E h \in Handlers, ok \in BOOLEAN : attachTargetInfoResumed(h, ok) /\ UNCHANGED attachOtherVars
  \/ \E h \in Handlers : handlerReturns(h) /\ UNCHANGED attachOtherVars
  \/ \E ws \in Sockets : socketEstablished(ws) /\ UNCHANGED regOtherVars
  \/ socketOnClose /\ UNCHANGED regOtherVars
  \/ processEvents /\ UNCHANGED regOtherVars
  \/ \E tabId \in Tabs : detachAll(tabId) /\ UNCHANGED regOtherVars
  \/ \E tabId \in Tabs : tabsOnRemoved(tabId) /\ UNCHANGED regOtherVars
  \/ \E tabId \in Tabs : onDebuggerDetach(tabId) /\ UNCHANGED regOtherVars

AttachSpec == Init /\ [][AttachNext]_vars

\* ------------------------------------------------------------------ claims

\* C1: a response frame carrying id N resolves only the caller whose command
\* was registered in state.pending under id N, and exactly that one caller.
C1_CorrectCorrelation ==
  \A d \in delivered :
    d.how = "response" =>
      /\ d.id # NoId
      /\ d.msg.id = d.id
      /\ delivered = {d}

\* C1 witness: a response frame resolved one caller while another command
\* was still pending.
C1_Witness ==
  /\ \E d \in delivered : d.how = "response"
  /\ pending # EmptyMap

\* C2: every forwarded command's id is the value of state.nextId, strictly
\* greater than every id issued before; the body's id never decides it; no
\* pending entry is shared or overwritten.
C2_FreshIds ==
  /\ \A i \in 1..Len(issued) : issued[i] = i
  /\ \A i, j \in 1..Len(issued) : i < j => issued[i] < issued[j]
  /\ \A i \in 1..Len(issued) : issued[i] < nextId
  /\ \A r \in Reqs :
       req[r].phase = "waiting" =>
         /\ req[r].id \in DOMAIN pending
         /\ pending[req[r].id].req = r
  /\ \A id \in DOMAIN pending :
       /\ req[pending[id].req].phase = "waiting"
       /\ req[pending[id].req].id = id
  /\ made.id # NoId =>
       /\ made.id = issued[Len(issued)]
       /\ made.id = nextId - 1

\* C2 witness: a command whose body carried the numeric id 1 is in flight
\* under the id 2.
C2_Witness ==
  /\ made.bodyId = 1
  /\ made.id = 2
  /\ \E r \in Reqs : req[r].phase = "waiting" /\ req[r].id = 2

TimeoutOf(kind) ==
  IF kind = "health" THEN HEALTH_PROBE_TIMEOUT_MS ELSE REQUEST_TIMEOUT_MS

\* C3: when the timer of a pending command fires, its caller is resolved
\* with an error whose text begins "Timeout after <timeoutMs>ms", and
\* state.pending holds no entry for its id afterwards.
C3_Timeout ==
  [][\A id \in Ids :
       (id \in DOMAIN pending /\ TimerFire(id)) =>
         /\ id \notin DOMAIN pending'
         /\ id \notin DOMAIN timers'
         /\ \E d \in delivered' :
              /\ d.r = pending[id].req
              /\ d.id = id
              /\ d.msg.error.tag = "string"
              /\ StartsWith(d.msg.error.s,
                            <<"Timeout after", " ",
                              ToString(TimeoutOf(d.kind)), "ms">>)]_vars

\* C3 witness: a command was resolved by its timer.
C3_Witness == \E d \in delivered : d.how = "timeout"

\* C4 (as claimed): whenever the current extension connection is lost
\* (state.extension reset or superseded), every pending command is resolved
\* in that step with a connection-loss error and state.pending is empty.
C4_DisconnectFailsAll ==
  [][(extension # NoSocket /\ extension' # extension) =>
       /\ pending' = EmptyMap
       /\ \A id \in DOMAIN pending :
            \E d \in delivered' :
              /\ d.id = id
              /\ d.msg.error \in {Str(DISCONNECTED), Str(RECONNECTED)}]_vars

\* C5: every request that entered state.pending is eventually answered and
\* its entry removed.
C5_NoDanglingEntry ==
  \A r \in Reqs :
    (req[r].phase = "waiting") ~>
      (req[r].phase = "done" /\ \A id \in DOMAIN pending : pending[id].req # r)

\* C5 witness: the extension went away without a close event and the timer
\* answered the caller.
C5_Witness ==
  /\ \E d \in delivered : d.how = "timeout"
  /\ ~ExtensionOpen

\* C6: a command dispatched while state.extension is null or not OPEN is
\* resolved at once with "Extension is not connected"; state.pending and the
\* timers are unchanged and no frame is sent.
C6_NotConnected ==
  [][(nextId' # nextId /\ ~ExtensionOpen) =>
       /\ pending' = pending
       /\ timers' = timers
       /\ sent' = {}
       /\ \A r \in Reqs : req'[r].phase # "waiting" \/ req[r].phase = "waiting"
       /\ \E d \in delivered' :
            /\ delivered' = {d}
            /\ req[d.r].phase = "idle"
            /\ d.msg.error = Str(NOT_CONNECTED)]_vars

\* C6 witness: a command was refused while state.extension was set but its
\* socket no longer OPEN.
C6_Witness ==
  /\ \E d \in delivered : d.how = "notconnected"
  /\ extension # NoSocket

\* C7: a response frame carrying a result (and no error) gives the caller of
\* POST /command ok = true, error = null and exactly that result.
C7_RoundTrip ==
  \A d \in delivered :
    (/\ d.kind = "command"
     /\ d.how = "response"
     /\ d.msg.result # Undefined
     /\ d.msg.error = Undefined) =>
      /\ d.resp.ok = TRUE
      /\ d.resp.error = Null
      /\ d.resp.result = d.msg.result
      /\ d.resp.status = 200

\* C7 witness: the extension answered a command with the falsy result 0.
C7_Witness ==
  \E d \in delivered :
    d.kind = "command" /\ d.how = "response" /\ d.msg.result = Zero

\* C8: a response frame whose id has no entry in state.pending is broadcast
\* as an orphan-response; no caller is resolved and state.pending is unchanged.
C8_OrphanBroadcast ==
  [][\A ws \in Sockets, f \in Frames :
       (/\ isExtensionResponseMessage(f)
        /\ f.id \notin DOMAIN pending
        /\ WsMessage(ws, f)) =>
         /\ Len(broadcast') = 1
         /\ broadcast'[1].type = "orphan-response"
         /\ broadcast'[1].result =
              (IF f.result = Undefined THEN Null ELSE f.result)
         /\ broadcast'[1].error =
              (IF f.error = Undefined THEN Null ELSE f.error)
         /\ delivered' = {}
         /\ pending' = pending
         /\ req' = req]_vars

\* C8 witness: an orphan-response was broadcast after a command had already
\* been answered (a late or unknown response).
C8_Witness ==
  /\ Len(broadcast) = 1
  /\ broadcast[1].type = "orphan-response"
  /\ \E r \in Reqs : req[r].phase = "done"
  /\ nextId > 1

\* C9 (as claimed): 503 when the command failed because the extension is
\* not connected, 504 when its timer fired, 502 for every other error (sent
\* by the extension, or a connection loss), 200 when there is no error.
C9_StatusMapping ==
  \A d \in delivered :
    (d.kind = "command" /\ d.id # NoId) =>
      d.resp.status =
        (CASE d.how = "notconnected" -> 503
           [] d.how = "timeout" -> 504
           [] d.how \in {"disconnect", "replaced"} -> 502
           [] d.how = "response" /\ d.msg.error # Undefined -> 502
           [] OTHER -> 200)

\* C10 (as claimed): the body of POST /command has ok = false exactly when
\* error is a string and ok = true exactly when error is null; result is null
\* when the extension sent none.
C10_ResponseShape ==
  \A d \in delivered :
    (d.kind = "command" /\ d.id # NoId) =>
      /\ d.resp.ok \in BOOLEAN
      /\ d.resp.error.tag \in {"string", "null"}
      /\ (d.resp.ok = FALSE) <=> (d.resp.error.tag = "string")
      /\ (d.resp.ok = TRUE) <=> (d.resp.error = Null)
      /\ d.msg.result = Undefined => d.resp.result = Null

\* C11: every OPEN extension socket is state.extension (at most one current
\* connection); an opening socket becomes state.extension and the current
\* OPEN socket is closed; the close event of a replaced socket changes
\* neither state.extension, the keepalive timer nor state.pending, resolves
\* no caller and broadcasts nothing.
C11_SingleConnection ==
  /\ [](\A s \in Sockets : sock[s] = "open" => extension = s)
  /\ [][\A ws \in Sockets :
         WsOpen(ws) =>
           /\ extension' = ws
           /\ keepalive' = ws
           /\ ExtensionOpen => sock'[extension] # "open"]_vars
  /\ [][\A ws \in Sockets :
         (extension # ws /\ WsClose(ws)) =>
           /\ UNCHANGED <<extension, keepalive, intervals, pending, timers, req>>
           /\ delivered' = {}
           /\ broadcast' = <<>>]_vars

\* C11 witness: the close event of the replaced socket 1 has just been
\* handled while socket 2 is current and a command sent over it is pending.
C11_Witness ==
  /\ sock[1] = "closed"
  /\ sock[2] = "open"
  /\ extension = 2
  /\ keepalive = 2
  /\ pending # EmptyMap
  /\ broadcast = <<>>
  /\ delivered = {}
  /\ sent = {}

\* C12: GET /health while state.extension is null or not OPEN answers 503
\* with extensionConnected = false; no command is made, state.nextId,
\* state.pending and the timers are unchanged and no frame is sent.
C12_HealthSkipsProbe ==
  [][\A r \in Reqs :
       (~ExtensionOpen /\ Health(r)) =>
         /\ UNCHANGED <<nextId, issued, pending, timers>>
         /\ made' = NoMade
         /\ sent' = {}
         /\ req'[r].phase = "done"
         /\ \E d \in delivered' :
              /\ delivered' = {d}
              /\ d.r = r
              /\ d.resp.status = 503
              /\ d.resp.ok = FALSE
              /\ d.resp.extensionConnected = FALSE]_vars

\* C12 witness: GET /health was answered without a probe while
\* state.extension was set but its socket no longer OPEN, after a command
\* had consumed the id 1.
C12_Witness ==
  /\ \E d \in delivered : d.kind = "health" /\ d.how = "skipped"
  /\ extension # NoSocket
  /\ nextId = 2

\* C13 (as claimed): browserBlocked = true exactly when the probe ended
\* because its timer fired; every other failure gives browserResponsive =
\* false with browserBlocked = false; ok = true only when the extension
\* answered without error and with a non-empty targetId.
C13_HealthClassification ==
  \A d \in delivered :
    (d.kind = "health" /\ d.how # "skipped") =>
      /\ d.resp.extensionConnected = TRUE
      /\ (d.resp.browserBlocked = TRUE) <=> (d.how = "timeout")
      /\ d.resp.ok = FALSE => d.resp.browserResponsive = FALSE
      /\ d.resp.ok = TRUE =>
           /\ d.how = "response"
           /\ d.msg.error = Undefined
           /\ d.msg.result = TargetObj

\* C14 (as claimed): for every setting of SKILL_REQUEST_TIMEOUT_MS and
\* SKILL_HEALTH_PROBE_TIMEOUT_MS, HEALTH_PROBE_TIMEOUT_MS is a positive
\* integer not greater than REQUEST_TIMEOUT_MS.
C14_TimeoutTiers ==
  config.loaded =>
    /\ config.health \in Nat \ {0}
    /\ config.health <= config.request

\* C15 (as claimed): the probe has its own id and its own, shorter timer,
\* and with an extension that takes and answers commands without delay a
\* probe sent while another command is in flight is answered by the
\* extension within the probe timeout: its timer never fires.
C15_ProbeNotQueued ==
  /\ \A r \in Reqs :
       (req[r].phase = "waiting" /\ req[r].kind = "health") =>
         /\ timers[req[r].id].timeoutMs = HEALTH_PROBE_TIMEOUT_MS
         /\ \A q \in Reqs \ {r} : req[q].phase = "waiting" => req[q].id # req[r].id
  /\ \A d \in delivered : d.kind = "health" => d.how # "timeout"

\* ------------------------------------------------- the Connection service
\* The maintenance of the extension's WebSocket to the relay.  A step is what
\* a fiber or a handler does within one turn of the event loop.  A fiber
\* suspends at the HEAD fetch, the handshake and the sleep.  Fiber.interrupt
\* of a fiber suspended there completes in the same turn (the runtime runs
\* the interrupted fiber and then its observer as microtasks), so no browser
\* event and no other call runs inside disconnect.

isConnected == wsRef # 0 /\ socks[wsRef] = "open"

\* What listens on localhost:9222: nothing, the relay of this repository, or
\* a server that answers HEAD / with 200 (the relay as its README describes
\* it).  All but "down" accept the WebSocket upgrade on /extension.
RelayKinds == {"down", "relay", "head200"}

\* The status the relay's fetch handler gives a request: /health answers
\* GET only, /command POST, /events GET, /extension upgrades, and every
\* other request falls through to "Not found".
relayFetchStatus(method, pathname) ==
  CASE pathname = "/health" -> IF method = "GET" THEN 200 ELSE 405
    [] pathname = "/command" /\ method = "POST" -> 200
    [] pathname = "/events" /\ method = "GET" -> 200
    [] pathname = "/extension" -> 101
    [] OTHER -> 404

\* Response.ok
ResponseOk(status) == status \in 200..299

\* checkServerReachable with its catchAll: response.ok of HEAD RELAY_HTTP,
\* false when the fetch rejects.
checkServerReachable ==
  CASE relay = "down" -> FALSE
    [] relay = "relay" -> ResponseOk(relayFetchStatus("HEAD", "/"))
    [] relay = "head200" -> ResponseOk(200)

LoopRunning(f) == lpc[f] # "none"

\* A fiber slot to fork into: the lowest that holds no live fiber.
FreeFiber(f) == ~LoopRunning(f) /\ \A g \in Fibers : g < f => LoopRunning(g)

\* A socket that is gone: closed, referenced by nothing, no event about it
\* waiting.  Its slot stands for the next socket to be created.
Reusable(ws) ==
  /\ socks[ws] \in {"none", "closed"}
  /\ ws # wsRef
  /\ \A i \in 1..Len(eventsQ) : eventsQ[i].conn # ws

FreeSocket(ws) == Reusable(ws) /\ \A o \in Sockets : o < ws => ~Reusable(o)

\* closeSocket: ws.close() on the socket in wsRef, then wsRef is set to null;
\* k is the call of disconnect it runs in (0: checkConnection).
closeSocket(k) ==
  /\ socks' = IF isConnected THEN [socks EXCEPT ![wsRef] = "closing"] ELSE socks
  /\ closedBy' = IF isConnected THEN [closedBy EXCEPT ![wsRef] = k] ELSE closedBy
  /\ wsRef' = 0

\* Queue.offer(eventsQ, Disconnected) because of call k of disconnect
\* (0: not because of a call of disconnect)
offerDisconnected(k, reason, ws) ==
  /\ Len(eventsQ) < MaxEvents
  /\ eventsQ' = Append(eventsQ, [tag |-> "Disconnected", reason |-> reason,
                                 conn |-> ws])
  /\ emitted' = IF k = 0 THEN emitted ELSE [emitted EXCEPT ![k] = @ + 1]

\* Mutant of startMaintaining: a loop is forked whether or not fiberRef
\* holds one.
startMaintaining_NoExistingCheck ==
  /\ maintainRef' = TRUE
  /\ \E f \in Fibers :
       /\ FreeFiber(f)
       /\ fiberRef' = f
       /\ lpc' = [lpc EXCEPT ![f] = "ready"]
  /\ UNCHANGED <<linkVars, hs, cpc, cret, installed, closedBy, calls, emitted,
                 relay, sends, tx, dropped, runs>>

\* startMaintaining
startMaintaining ==
  /\ maintainRef' = TRUE
  /\ IF fiberRef # 0
       THEN UNCHANGED <<fiberRef, lpc>>
     ELSE \E f \in Fibers :
            /\ FreeFiber(f)
            /\ fiberRef' = f
            /\ lpc' = [lpc EXCEPT ![f] = "ready"]
  /\ UNCHANGED <<linkVars, hs, cpc, cret, installed, closedBy, calls, emitted,
                 relay, sends, tx, dropped, runs>>

\* maintainLoop, at the top of an iteration (after the fork or the sleep):
\* it returns when maintenance is off; tryConnectOnce returns when the socket
\* is open and the loop sleeps again, or awaits the HEAD fetch.
maintainLoop(f) ==
  /\ lpc[f] = "ready"
  /\ lpc' = [lpc EXCEPT ![f] = IF ~maintainRef THEN "none"
                                ELSE IF isConnected THEN "ready"
                                ELSE "reach"]
  /\ UNCHANGED <<linkVars, maintainRef, fiberRef, hs, cpc, cret, installed,
                 closedBy, calls, emitted, relay, sends, tx, dropped, runs>>

\* tryConnectOnce, resumed by checkServerReachable: new WebSocket(RELAY_URL)
\* and the wait for its handshake, or back to the sleep.
tryConnectOnce(f) ==
  /\ lpc[f] = "reach"
  /\ IF checkServerReachable
       THEN \E ws \in Sockets :
              /\ FreeSocket(ws)
              /\ socks' = [socks EXCEPT ![ws] = "connecting"]
              /\ installed' = [installed EXCEPT ![ws] = FALSE]
              /\ closedBy' = [closedBy EXCEPT ![ws] = 0]
              /\ runs' = [runs EXCEPT ![ws] = 0]
              /\ hs' = [hs EXCEPT ![f] = ws]
              /\ lpc' = [lpc EXCEPT ![f] = "handshake"]
     ELSE /\ lpc' = [lpc EXCEPT ![f] = "ready"]
          /\ UNCHANGED <<socks, installed, closedBy, runs, hs>>
  /\ UNCHANGED <<wsRef, eventsQ, maintainRef, fiberRef, cpc, cret, calls,
                 emitted, relay, sends, tx, dropped>>

\* The fiber that awaits the handshake of socket ws (0: none).
Awaiting(ws) ==
  IF \E f \in Fibers : lpc[f] = "handshake" /\ hs[f] = ws
    THEN CHOOSE f \in Fibers : lpc[f] = "handshake" /\ hs[f] = ws
  ELSE 0

\* ws.onopen: the handshake of a socket completes.  The fiber that awaits
\* it installs the handlers, sets wsRef and offers Connected; when that
\* fiber has been interrupted nothing resumes and the socket stays open.
wsOnOpen(ws) ==
  /\ socks[ws] = "connecting"
  /\ relay # "down"
  /\ socks' = [socks EXCEPT ![ws] = "open"]
  /\ IF Awaiting(ws) # 0
       THEN /\ Len(eventsQ) < MaxEvents
            /\ installed' = [installed EXCEPT ![ws] = TRUE]
            /\ wsRef' = ws
            /\ eventsQ' = Append(eventsQ, [tag |-> "Connected",
                                           reason |-> "none", conn |-> ws])
            /\ lpc' = [lpc EXCEPT ![Awaiting(ws)] = "ready"]
            /\ hs' = [hs EXCEPT ![Awaiting(ws)] = 0]
     ELSE UNCHANGED <<installed, wsRef, eventsQ, lpc, hs>>
  /\ UNCHANGED <<maintainRef, fiberRef, cpc, cret, closedBy, calls, emitted,
                 relay, sends, tx, dropped, runs>>

\* The handshake fails: the 5 s timer closes the socket, or ws.onerror /
\* ws.onclose fire; the fiber that awaits it goes on to the sleep.
wsHandshakeFails(ws) ==
  /\ socks[ws] = "connecting"
  /\ relay = "down"
  /\ socks' = [socks EXCEPT ![ws] = "closed"]
  /\ IF Awaiting(ws) # 0
       THEN /\ lpc' = [lpc EXCEPT ![Awaiting(ws)] = "ready"]
            /\ hs' = [hs EXCEPT ![Awaiting(ws)] = 0]
     ELSE UNCHANGED <<lpc, hs>>
  /\ UNCHANGED <<wsRef, eventsQ, maintainRef, fiberRef, cpc, cret, installed,
                 closedBy, calls, emitted, relay, sends, tx, dropped, runs>>

\* The closing handshake of an open socket starts on the relay's side:
\* readyState is CLOSING until the close event.
wsClosing(ws) ==
  /\ socks[ws] = "open"
  /\ socks' = [socks EXCEPT ![ws] = "closing"]
  /\ UNCHANGED <<wsRef, eventsQ, connVars>>

\* The close event of an established socket (closed by the relay, lost, or
\* after ws.close()): socket.onclose sets wsRef to null and offers
\* Disconnected.
wsOnClose(ws) ==
  /\ socks[ws] \in {"open", "closing"}
  /\ socks' = [socks EXCEPT ![ws] = "closed"]
  /\ IF installed[ws]
       THEN /\ wsRef' = 0
            /\ offerDisconnected(closedBy[ws], "close", ws)
     ELSE UNCHANGED <<wsRef, eventsQ, emitted>>
  /\ UNCHANGED <<maintainRef, fiberRef, lpc, hs, cpc, cret, installed, closedBy,
                 calls, relay, sends, tx, dropped, runs>>

\* disconnect: maintenance is turned off, the fiber in fiberRef is
\* interrupted wherever it is suspended, fiberRef is set to null, closeSocket,
\* and the Disconnected event.
disconnect ==
  /\ calls < MaxCalls
  /\ calls' = calls + 1
  /\ maintainRef' = FALSE
  /\ lpc' = [f \in Fibers |-> IF f = fiberRef THEN "none" ELSE lpc[f]]
  /\ hs' = [f \in Fibers |-> IF f = fiberRef THEN 0 ELSE hs[f]]
  /\ fiberRef' = 0
  /\ closeSocket(calls')
  /\ offerDisconnected(calls', "manual", wsRef)
  /\ UNCHANGED <<cpc, cret, installed, relay, sends, tx, dropped, runs>>

\* checkConnection is called: false at once when the socket is not open,
\* else it awaits the HEAD fetch.
checkConnection ==
  /\ cpc = "idle"
  /\ cpc' = IF isConnected THEN "reach" ELSE "idle"
  /\ cret' = IF isConnected THEN "none" ELSE "false"
  /\ UNCHANGED <<linkVars, maintainRef, fiberRef, lpc, hs, installed, closedBy,
                 calls, emitted, relay, sends, tx, dropped, runs>>

\* Mutant of checkConnection's second half: a failed probe only makes it
\* return false.
checkConnectionResumed_NoTeardown ==
  /\ cpc = "reach"
  /\ cpc' = "idle"
  /\ cret' = IF checkServerReachable THEN "true" ELSE "false"
  /\ UNCHANGED <<linkVars, closedBy, emitted>>
  /\ UNCHANGED <<maintainRef, fiberRef, lpc, hs, installed, calls, relay,
                 sends, tx, dropped, runs>>

\* checkConnection, resumed by checkServerReachable: an unreachable relay
\* makes the socket stale: closeSocket and Disconnected "stale".
checkConnectionResumed ==
  /\ cpc = "reach"
  /\ cpc' = "idle"
  /\ cret' = IF checkServerReachable THEN "true" ELSE "false"
  /\ IF checkServerReachable
       THEN UNCHANGED <<linkVars, closedBy, emitted>>
     ELSE /\ closeSocket(0)
          /\ offerDisconnected(0, "stale", wsRef)
  /\ UNCHANGED <<maintainRef, fiberRef, lpc, hs, installed, calls, relay,
                 sends, tx, dropped, runs>>

\* Mutant of send: the message is handed to whatever socket wsRef holds.
send_NoReadyStateCheck ==
  /\ sends < MaxSends
  /\ sends' = sends + 1
  /\ IF wsRef # 0
       THEN /\ tx' = tx \cup {<<wsRef, sends'>>}
            /\ UNCHANGED dropped
     ELSE /\ dropped' = dropped \cup {sends'}
          /\ UNCHANGED tx
  /\ UNCHANGED <<linkVars, maintainRef, fiberRef, lpc, hs, cpc, cret, installed,
                 closedBy, calls, emitted, relay, runs>>

\* send(message): rawSend when wsRef holds a socket that is OPEN, else
\* nothing.
send ==
  /\ sends < MaxSends
  /\ sends' = sends + 1
  /\ IF wsRef # 0 /\ socks[wsRef] = "open"
       THEN /\ tx' = tx \cup {<<wsRef, sends'>>}
            /\ UNCHANGED dropped
     ELSE /\ dropped' = dropped \cup {sends'}
          /\ UNCHANGED tx
  /\ UNCHANGED <<linkVars, maintainRef, fiberRef, lpc, hs, cpc, cret, installed,
                 closedBy, calls, emitted, relay, runs>>

\* The server on localhost:9222 is started, stopped or replaced.
relayChanges ==
  /\ relay' \in RelayKinds \ {relay}
  /\ UNCHANGED <<linkVars, maintainRef, fiberRef, lpc, hs, cpc, cret, installed,
                 closedBy, calls, emitted, sends, tx, dropped, runs>>

\* processEvents takes an event of the connection; a Disconnected event
\* runs detachAll (the registry is empty here).
processEventsOfConnection ==
  /\ processEvents
  /\ runs' = IF Head(eventsQ).tag = "Disconnected" /\ Head(eventsQ).conn # 0
               THEN [runs EXCEPT ![Head(eventsQ).conn] = @ + 1]
             ELSE runs
  /\ UNCHANGED <<maintainRef, fiberRef, lpc, hs, cpc, cret, installed, closedBy,
                 calls, emitted, relay, sends, tx, dropped>>

connOtherVars == <<relayVars, cfgVars, loopVars, timeVars, regVars, routeVars, sseVars>>

ConnNext ==
  \/ startMaintaining /\ UNCHANGED connOtherVars
  \/ \E f \in Fibers : maintainLoop(f) /\ UNCHANGED connOtherVars
  \/ \E f \in Fibers : tryConnectOnce(f) /\ UNCHANGED connOtherVars
  \/ \E ws \in Sockets : wsOnOpen(ws) /\ UNCHANGED connOtherVars
  \/ \E ws \in Sockets : wsHandshakeFails(ws) /\ UNCHANGED connOtherVars
  \/ \E ws \in Sockets : wsClosing(ws) /\ UNCHANGED connOtherVars
  \/ \E ws \in Sockets : wsOnClose(ws) /\ UNCHANGED connOtherVars
  \/ disconnect /\ UNCHANGED connOtherVars
  \/ checkConnection /\ UNCHANGED connOtherVars
  \/ checkConnectionResumed /\ UNCHANGED connOtherVars
  \/ relayChanges /\ UNCHANGED connOtherVars
  \/ processEventsOfConnection /\ UNCHANGED <<relayVars, cfgVars, timeVars, routeVars, sseVars>>

ConnSpec == Init /\ [][ConnNext]_vars

\* ConnSpec with the scheduling the runtime gives: a fiber that can run
\* runs, a fetch and a handshake end (the fetch by its 1 s abort signal, the
\* handshake by its 5 s timer at the latest), queued events are taken by
\* processEvents, and a socket the extension no longer refers to is closed
\* (the relay closes the extension socket it replaces).
LiveConnSpec ==
  /\ ConnSpec
  /\ \A f \in Fibers : WF_vars(maintainLoop(f) /\ UNCHANGED connOtherVars)
  /\ \A f \in Fibers : WF_vars(tryConnectOnce(f) /\ UNCHANGED connOtherVars)
  /\ \A ws \in Sockets : WF_vars(wsOnOpen(ws) /\ UNCHANGED connOtherVars)
  /\ \A ws \in Sockets : WF_vars(wsHandshakeFails(ws) /\ UNCHANGED connOtherVars)
  /\ \A ws \in Sockets : WF_vars(ws # wsRef /\ wsClosing(ws) /\ UNCHANGED connOtherVars)
  /\ \A ws \in Sockets : WF_vars(ws # wsRef /\ wsOnClose(ws) /\ UNCHANGED connOtherVars)
  /\ WF_vars(processEventsOfConnection /\ UNCHANGED <<relayVars, cfgVars, timeVars, routeVars, sseVars>>)

\* The Connection service with callers of send.
SendNext ==
  \/ ConnNext
  \/ send /\ UNCHANGED connOtherVars

SendSpec == Init /\ [][SendNext]_vars

\* The Disconnected event of connection c has been taken from
\* Connection.events and its detachAll has completed.
DisconnectedHandled(c) ==
  /\ socks[c] = "closed"
  /\ \A i \in 1..Len(eventsQ) : eventsQ[i].conn # c
  /\ epc = "idle"

\* C16: each loss of the connection clears the tab map and the child-session
\* map atomically (between the start of detachAll and its clearing no step
\* changes either map), and once the Disconnected event of a connection has
\* been handled and a later connection is established, the registry holds no
\* entry made under that connection or by a command received over it.
C16_SessionsDoNotOutlive ==
  /\ [][(epc = "detaching" /\ epc' = "detaching") => UNCHANGED <<tabsRef, childSessionsRef>>]_vars
  /\ [](\A c \in Sockets : (DisconnectedHandled(c) /\ wsRef > c) => \A t \in DOMAIN tabsRef : via[t].cmd # c /\ via[t].at # c)

\* Commands a and b both asked for the same tab, b had been received when a
\* was answered, and a found the tab untracked and called attach.
ConcurrentGetOrAttach(a, b) ==
  /\ a \in DOMAIN answers
  /\ b \in DOMAIN answers
  /\ b \in answers[a].others
  /\ answers[a].tab # NoTab
  /\ answers[a].tab = answers[b].tab
  /\ answers[a].attached

\* What C17 promises of two such commands: one attach, the same targetId,
\* and the tab in the registry.
OneAttach(a, b) ==
  /\ ~answers[b].attached
  /\ answers[a].ok
  /\ answers[b].ok
  /\ answers[a].targetId = answers[b].targetId
  /\ answers[b].tracked

C18_ChildLinkCleanup ==
  /\ [](\A c \in DOMAIN childSessionsRef : childSessionsRef[c] \in DOMAIN tabsRef)
  /\ [][\A t \in DOMAIN tabsRef \ DOMAIN tabsRef' : \A c \in DOMAIN childSessionsRef' : childSessionsRef'[c] # t]_vars

\* A tab's entry has been removed while a child session of another tab
\* stays linked to its tracked parent.
C18_Witness ==
  \E t \in Tabs, c \in DOMAIN childSessionsRef : gen[t] > 0 /\ t \notin DOMAIN tabsRef /\ childSessionsRef[c] \in DOMAIN tabsRef

\* Call k of disconnect has returned.
DisconnectReturned(k) == k <= calls

\* C19: a call of disconnect, in whatever state it is made, turns
\* maintenance off and stops the maintain loop; when it returns the socket
\* it found is no longer open, wsRef and fiberRef are null; and exactly one
\* Disconnected event is offered to Connection.events because of the call.
C19_DisconnectOnce ==
  /\ [][calls' # calls => (~maintainRef' /\ \A f \in Fibers : ~LoopRunning(f)')]_vars
  /\ [][calls' # calls => (wsRef' = 0 /\ fiberRef' = 0 /\ (wsRef # 0 => socks'[wsRef] # "open"))]_vars
  /\ [](\A k \in 1..MaxCalls : emitted[k] <= 1 /\ (DisconnectReturned(k) => emitted[k] = 1))

\* C20: every open socket is the one held in wsRef (so at most one is
\* open), and when wsRef is set to a newly established socket every other
\* socket created so far has been closed.
C20_SingleSocket ==
  /\ [](\A ws \in Sockets : socks[ws] = "open" => wsRef = ws)
  /\ [][(wsRef' # 0 /\ wsRef' # wsRef) => \A o \in Sockets \ {wsRef'} : socks'[o] \in {"none", "closed"}]_vars

\* disconnect has completed and startMaintaining has not been called since.
Stopped == calls > 0 /\ ~maintainRef

\* C21: once disconnect has completed, and until startMaintaining is called
\* again, no fiber of the loop is alive (no probe or handshake is started),
\* no handshake is in progress with its timer armed, none completes into an
\* open socket, and the connection is not connected.
C21_LoopStopsAndLeaksNothing ==
  /\ [](Stopped => ((\A f \in Fibers : ~LoopRunning(f)) /\ ~isConnected))
  /\ [](Stopped => \A ws \in Sockets : socks[ws] # "connecting")
  /\ [][(Stopped /\ Stopped') => \A ws \in Sockets : ~(socks[ws] = "connecting" /\ socks'[ws] = "open")]_vars

LoopsRunning == {f \in Fibers : LoopRunning(f)}

\* C22: at most one maintain loop is running, whatever startMaintaining and
\* disconnect calls have been made, and a call of startMaintaining made
\* while a loop runs changes nothing but maintainRef, which it leaves TRUE.
C22_StartMaintainingIdempotent ==
  /\ [](Cardinality(LoopsRunning) <= 1)
  /\ [][(startMaintaining /\ LoopsRunning # {}) => (maintainRef' /\ UNCHANGED <<linkVars, fiberRef, lpc, hs, cpc, installed, closedBy, calls, emitted>>)]_vars

\* A loop runs with maintenance enabled after a disconnect and a new
\* startMaintaining, and it is the fiber held in fiberRef.
C22_Witness ==
  /\ calls > 0
  /\ maintainRef
  /\ LoopsRunning = {fiberRef}

\* A step in which a connection attempt fails: the probe says unreachable,
\* or the handshake ends in an error, a close or its timeout.
AttemptFails ==
  \/ \E f \in Fibers : tryConnectOnce(f) /\ ~checkServerReachable
  \/ \E ws \in Sockets : wsHandshakeFails(ws)

\* C23: a failed connection attempt ends no maintain loop, while
\* maintenance is enabled the loop of fiberRef is alive, and if from some
\* point on maintenance stays enabled and the relay stays reachable and
\* accepting, the connection is established again and again.
C23_FailuresRetried ==
  /\ [][AttemptFails => \A f \in Fibers : LoopRunning(f) => LoopRunning(f)']_vars
  /\ [](maintainRef => (fiberRef # 0 /\ LoopRunning(fiberRef)))
  /\ (<>[](maintainRef /\ relay # "down") => []<>isConnected)

\* C24: a send made while the connection is not connected (wsRef null, or
\* its socket not OPEN) transmits nothing and changes no state of the
\* connection, and a message dropped so is not transmitted later either,
\* whatever connection is established afterwards.
C24_SendDropsWhenNotConnected ==
  /\ [][(sends' # sends /\ ~isConnected) => (sends' \in dropped' /\ tx' = tx /\ UNCHANGED <<linkVars, maintainRef, fiberRef, lpc, hs, cpc, cret, installed, closedBy, calls, emitted>>)]_vars
  /\ [](\A n \in dropped : \A ws \in Sockets : <<ws, n>> \notin tx)

\* A message was dropped and the connection has been established since.
C24_Witness ==
  /\ dropped # {}
  /\ isConnected
  /\ tx = {}

\* What checkConnection leaves alone when it has no side effect.
NoSideEffect == UNCHANGED <<linkVars, maintainRef, fiberRef, lpc, hs, installed, closedBy, calls, emitted>>

\* C25: checkConnection returns false without side effects when no socket is
\* open; with the socket open it returns true without side effects when the
\* probe succeeds, and when the probe fails it closes the socket, clears
\* wsRef, offers one Disconnected event and returns false.
C25_StaleDetection ==
  /\ [][(checkConnection /\ ~isConnected) => (cret' = "false" /\ cpc' = "idle" /\ NoSideEffect)]_vars
  /\ [][(checkConnectionResumed /\ checkServerReachable) => (cret' = "true" /\ NoSideEffect)]_vars
  /\ [][(checkConnectionResumed /\ ~checkServerReachable) => (cret' = "false" /\ wsRef' = 0 /\ (wsRef # 0 => socks'[wsRef] # "open") /\ Len(eventsQ') = Len(eventsQ) + 1 /\ eventsQ'[Len(eventsQ')].tag = "Disconnected")]_vars

\* checkConnection has found the open socket stale: it returned false, the
\* socket it closed is closing and its Disconnected event is queued.
C25_Witness ==
  /\ cret = "false"
  /\ wsRef = 0
  /\ \E ws \in Sockets : socks[ws] = "closing" /\ installed[ws] /\ \E i \in 1..Len(eventsQ) : eventsQ[i] = [tag |-> "Disconnected", reason |-> "stale", conn |-> ws]

\* Socket s was an established connection and is gone, and no event about it
\* waits in Connection.events.
ConnectionEnded(s) ==
  /\ installed[s]
  /\ socks[s] = "closed"
  /\ \A i \in 1..Len(eventsQ) : eventsQ[i].conn # s

\* C26: for each connection that ends (closed by the relay, by disconnect or
\* by the stale detection) detachAll is run once: never more than once, and
\* once when the connection has ended and its events have been taken.
C26_DetachAllOncePerLoss ==
  /\ \A s \in Sockets : runs[s] <= 1
  /\ \A s \in Sockets : ConnectionEnded(s) => runs[s] = 1

FailureSurfaced ==
  /\ handling.id \in DOMAIN answers'
  /\ ~answers'[handling.id].ok
  /\ UNCHANGED <<tabsRef, childSessionsRef, debuggee>>

\* C28: when attaching the active tab fails (no active tab, the debugger
\* refuses the tab, or Target.getTargetInfo fails), the step that meets the
\* failure answers the command with an error response, attaches no tab and
\* leaves the registry as it was.
C28_AttachFailureSurfaced ==
  /\ [][getActiveTargetId(NoTab) => FailureSurfaced]_vars
  /\ [][attachResumed(FALSE) => FailureSurfaced]_vars
  /\ [][attachInfoResumed(FALSE) => FailureSurfaced]_vars

\* The tab C29 names for a command: the tab whose own sessionId is the
\* command's, else the tracked parent recorded for that sessionId, else the
\* tab whose targetId is params.targetId, else none.
RoutedTab(cmd) ==
  LET own == {t \in DOMAIN tabsRef : sessionIdOf(t) = cmd.sessionId}
      parent == {t \in DOMAIN tabsRef : \E c \in DOMAIN childSessionsRef : childSessionId(c) = cmd.sessionId /\ childSessionsRef[c] = t}
      byTarget == {t \in DOMAIN tabsRef : tabsRef[t] = cmd.targetId}
  IN IF own # {} THEN CHOOSE t \in own : TRUE
     ELSE IF parent # {} THEN CHOOSE t \in parent : TRUE
     ELSE IF byTarget # {} THEN CHOOSE t \in byTarget : TRUE
     ELSE NoTab

\* Every call the command caused was made on the tab C29 names.
RoutedToNamedTab ==
  /\ routed.targetTabId = RoutedTab(routed.cmd)
  /\ \A i \in 1..Len(routed.outcome.sent) : routed.outcome.sent[i].tabId = RoutedTab(routed.cmd)

IsNotification(chunk) ==
  chunk.type \in {"forwardCDPEvent", "log", "unknown-from-extension"}

\* What subscriber c has been given, in the order its stream gives it.
Delivered(c) == got[c] \o streams[c]

\* C30: for every subscriber of GET /events, the event, log and unknown
\* frames of one extension connection reach the subscriber in the order in
\* which the relay received them: no two are swapped, in what the subscriber
\* has read and in what waits in its stream.
C30_NotificationOrder ==
  \A c \in Subscribers : \A i \in 1..Len(Delivered(c)), j \in 1..Len(Delivered(c)) :
    (i < j /\ IsNotification(Delivered(c)[i]) /\ IsNotification(Delivered(c)[j]) /\ Delivered(c)[i].conn = Delivered(c)[j].conn) => Delivered(c)[i].n < Delivered(c)[j].n

\* A subscriber has read two notifications of the same connection.
C30_Witness ==
  \E c \in Subscribers : \E i \in 1..Len(got[c]), j \in 1..Len(got[c]) :
    i < j /\ IsNotification(got[c][i]) /\ IsNotification(got[c][j]) /\ got[c][i].conn = got[c][j].conn /\ got[c][i].type # got[c][j].type

\* The chunks sseBroadcast has just enqueued are at the end of c's stream.
Enqueued(c) ==
  /\ Len(streams'[c]) = Len(streams[c]) + Len(broadcast')
  /\ \A i \in 1..Len(streams[c]) : streams'[c][i] = streams[c][i]
  /\ \A i \in 1..Len(broadcast') :
       /\ streams'[c][Len(streams[c]) + i].n = rx + i
       /\ streams'[c][Len(streams[c]) + i].type = broadcast'[i].type

\* A handler of the relay has run: a command was posted, or a frame or an
\* open or close event of the extension's socket was handled.
HandlerRan == <<sock, req, rx, made, delivered>>' # <<sock, req, rx, made, delivered>>

\* C31: subscriber isolation.  Every message a handler broadcasts is enqueued
\* in the stream of every subscriber of state.sseClients whose stream accepts
\* it, whatever the state of the other subscribers (one whose enqueue throws,
\* one that does not read); and the handler itself completes: every pending
\* command it takes out of state.pending is resolved in the same step.
C31_SubscriberIsolation ==
  [][HandlerRan =>
       /\ \A c \in sseClients \ broken : Enqueued(c)
       /\ \A id \in DOMAIN pending \ DOMAIN pending' : \E d \in delivered' : d.id = id]_vars

\* A response has just been delivered to its caller while one subscriber's
\* enqueue throws, and a later subscriber holds, unread, chunks broadcast
\* since (the earlier one does not hold them).
C31_Witness ==
  /\ \E d \in delivered : d.how = "response"
  /\ \E b \in sseClients \cap broken, c \in sseClients \ broken :
       /\ b < c
       /\ Len(streams[c]) >= 2
       /\ \E i \in 1..Len(streams[c]) : streams[c][i].n > 0 /\ \A j \in 1..Len(streams[b]) : streams[b][j].n # streams[c][i].n

\* The status chunks subscriber c has been given, in order.
StatusChunks(c) == SelectSeq(Delivered(c), LAMBDA chunk : chunk.type = "status")

\* C32: status notifications track the connection.  Every step that changes
\* state.extension broadcasts exactly one status message, whose
\* extensionConnected says whether state.extension is set after the step; no
\* other step broadcasts a status; so the last status a subscriber has been
\* given says true exactly when state.extension is set; and the hello chunk
\* of a new subscriber says whether the extension's socket is OPEN when it
\* subscribes.
C32_StatusTracksConnection ==
  /\ [](\A c \in sseClients \ broken :
          StatusChunks(c) # <<>> =>
            (StatusChunks(c)[Len(StatusChunks(c))].extensionConnected <=> extension # NoSocket))
  /\ [][/\ extension' # extension => broadcast' = <<StatusMessage(extension' # NoSocket)>>
        /\ \A i \in 1..Len(broadcast') :
             broadcast'[i].type = "status" => (broadcast'[i].extensionConnected <=> extension' # NoSocket)
        /\ \A c \in sseClients' \ sseClients :
             /\ Delivered(c)' = <<HelloChunk>>
             /\ HelloChunk.type = "hello"
             /\ (HelloChunk.extensionConnected <=> (extension # NoSocket /\ sock[extension] = "open"))]_vars

\* One subscriber has been told connected and then disconnected, and the
\* extension is not connected; another subscribed while the extension was
\* connected and its hello said so.
C32_Witness ==
  /\ extension = NoSocket
  /\ \E c \in sseClients \ broken : \E i \in 1..Len(StatusChunks(c)) :
       i < Len(StatusChunks(c)) /\ StatusChunks(c)[i].extensionConnected /\ ~StatusChunks(c)[Len(StatusChunks(c))].extensionConnected
  /\ \E c \in sseClients : Delivered(c)[1].type = "hello" /\ Delivered(c)[1].extensionConnected

\* The frame is unparseable text, or JSON that is neither a response, an
\* event nor a log message.
Malformed(parsed) ==
  ~(isExtensionResponseMessage(parsed) \/ isExtensionEventMessage(parsed) \/ isExtensionLogMessage(parsed))

\* C33: a malformed frame from the extension is answered by one
\* unknown-from-extension notification to the subscribers and by nothing
\* else: state.pending, the timers, the waiting requests, the sockets and
\* the extension connection are as before (so the frames that follow are
\* handled as they would have been), and no caller is resolved.
C33_MalformedFrameIgnored ==
  [][\A ws \in Sockets, parsed \in Frames :
       (Malformed(parsed) /\ WsMessage(ws, parsed)) =>
          /\ broadcast' = <<ForwardedMessage("unknown-from-extension")>>
          /\ delivered' = {}
          /\ UNCHANGED <<pending, timers, req, sock, extension, keepalive, intervals, nextId, issued>>]_vars

\* A malformed frame has just been broadcast as unknown while a command is
\* pending on the same connection.
C33_Witness ==
  /\ broadcast = <<ForwardedMessage("unknown-from-extension")>>
  /\ pending # EmptyMap
  /\ ExtensionOpen

\* The command is waiting in Connection.messages.
Queued(id) == \E i \in 1..Len(messagesQ) : messagesQ[i].id = id

\* C34: every command message of Connection.messages is answered, whether
\* its handler succeeds or fails: the command processMessages has taken gets
\* its response, and so does every command still waiting behind it (the loop
\* keeps running).
C34_EveryCommandAnswered ==
  \A id \in Ids :
    /\ (handling.id = id) ~> (id \in DOMAIN answers)
    /\ Queued(id) ~> (id \in DOMAIN answers)

\* The same for the runs in which no handler throws.
C34_AnsweredUnlessDefect ==
  [](mpc # "dead") => C34_EveryCommandAnswered

\* Handler h takes a get-or-attach request in this step.
Requested(h) == ac[h].pc = "idle" /\ ac'[h].pc # "idle"

C35_GetActiveTargetReuses ==
  [][\A t \in Tabs :
       (getActiveTargetId(t) /\ t \in DOMAIN tabsRef) =>
          /\ handling.id \in DOMAIN answers'
          /\ answers'[handling.id].ok
          /\ ~answers'[handling.id].attached
          /\ answers'[handling.id].targetId = tabsRef[t]
          /\ UNCHANGED <<tabsRef, debuggee, childSessionsRef>>]_vars

C36_ResolvedAtMostOnce ==
  [][/\ \A d \in delivered' :
          /\ req[d.r].phase # "done"
          /\ req'[d.r].phase = "done"
          /\ \A e \in delivered' : e.r = d.r => e = d
          /\ d.how # "notconnected" /\ d.how # "badshape" /\ d.how # "skipped" =>
               /\ d.id \in DOMAIN pending /\ pending[d.id].req = d.r
               /\ d.id \notin DOMAIN pending' /\ d.id \notin DOMAIN timers'
     /\ \A r \in Reqs : req[r].phase = "done" => req'[r] = req[r]
     /\ \A id \in DOMAIN pending' \ DOMAIN pending : id = nextId /\ \A i \in 1..Len(issued) : issued[i] < id]_vars

\* The timer has just resolved a command whose connection is still open (its
\* response can still arrive, and will find no entry), while another command
\* is pending.
C36_Witness ==
  /\ ExtensionOpen
  /\ pending # EmptyMap
  /\ \E d \in delivered :
       /\ d.how = "timeout"
       /\ d.id \notin DOMAIN pending
       /\ d.id \notin DOMAIN timers
       /\ req[d.r].phase = "done"

\* C37: the close event of an earlier socket does not disturb a later one.
\* When the close event of a socket that disconnect closed arrives while a
\* newer socket is held in wsRef and open, wsRef still holds the newer
\* socket afterwards, the connection is still connected, and no Disconnected
\* event is offered.
C37_LateCloseHarmless ==
  [][\A ws \in Sockets :
       (wsOnClose(ws) /\ closedBy[ws] > 0 /\ isConnected /\ wsRef # ws) =>
          /\ wsRef' = wsRef
          /\ isConnected'
          /\ eventsQ' = eventsQ]_vars

\* No attach and no detachAll is under way.
Quiescent == epc = "idle" /\ \A h \in Handlers : ac[h].pc \in {"idle", "done"}

\* C38: attach is all-or-nothing with respect to the browser.  Whenever no
\* attach and no detachAll is under way, every open tab the debugger is
\* attached to has its entry in the registry.
C38_AttachedIsTracked ==
  Quiescent => \A t \in debuggee \ closed : t \in DOMAIN tabsRef

\* The overlap alone: when detachAll ends, no open tab whose entry it clears
\* still has the debugger attached.
C38_DetachAllLeavesNoneAttached ==
  [][(epc = "detaching" /\ epc' = "idle") =>
       \A t \in DOMAIN tabsRef \ closed : t \notin debuggee']_vars

\* C39: the sessionIds issued by the registry's attach are unique.  No two
\* completed calls of attach were given the same sessionId (each is logged
\* with the Target.attachedToTarget it sent), a call in progress holds none
\* yet, and no two tracked tabs have the same sessionId; the counter is past
\* every sessionId issued.
C39_SessionIdsUnique ==
  /\ \A i \in 1..Len(attachLog), j \in 1..Len(attachLog) :
       i # j => attachLog[i].sessionId # attachLog[j].sessionId
  /\ \A i \in 1..Len(attachLog) : attachLog[i].sessionId < nextSessionIdRef
  /\ \A t \in DOMAIN tabsRef, u \in DOMAIN tabsRef :
       t # u => sessionIds[t] # sessionIds[u]
  /\ \A h \in Handlers, k \in Handlers :
       (h # k /\ ac[h].pc = "done" /\ ac[k].pc = "done" /\ ac[h].attached /\ ac[k].attached /\ ac[h].ok /\ ac[k].ok) =>
          ac[h].sessionId # ac[k].sessionId

\* Two attaches of different tabs have both returned, the second one first,
\* and both tabs are tracked.
C39_Witness ==
  /\ ac[1].pc = "done" /\ ac[1].ok /\ ac[1].attached /\ ac[1].sessionId = 2
  /\ ac[2].pc = "done" /\ ac[2].ok /\ ac[2].attached /\ ac[2].sessionId = 1
  /\ ac[1].tab # ac[2].tab
  /\ {ac[1].tab, ac[2].tab} \subseteq DOMAIN tabsRef
  /\ sessionIds[ac[1].tab] = 2 /\ sessionIds[ac[2].tab] = 1

\* C40: the keepalive timer exists exactly when an extension connection is
\* current.  state.extensionKeepaliveId is set if and only if state.extension
\* is set; the only keepalive interval that has not been cleared is the one
\* held there; and it pings the socket that is state.extension.
C40_KeepaliveTracksExtension ==
  /\ keepalive # NoSocket <=> extension # NoSocket
  /\ intervals = {keepalive} \ {NoSocket}
  /\ Cardinality(intervals) <= 1
  /\ keepalive = extension

\* Socket 2 has replaced socket 1, whose stale close event has been handled:
\* the one interval pings socket 2.
C40_Witness ==
  /\ sock[1] = "closed"
  /\ sock[2] = "open"
  /\ extension = 2
  /\ intervals = {2}

====
